---- MODULE Spec2Model ----
(***************************************************************************)
(* A model of the block-seek agent: the output parser                     *)
(* (agent/core.py, Web3AgentOutputParser), the agent executor loop that    *)
(* Web3Agent.process_query drives (agent/core.py), and the tools' execute  *)
(* contract (tools/*.py, tools/base.py).                                   *)
(*                                                                         *)
(* Texts are sequences of one-character strings, so that substring search, *)
(* trimming and the two regular expressions of the parser are computed on  *)
(* characters, as the code computes them.                                  *)
(***************************************************************************)
EXTENDS Integers, Sequences, FiniteSets, TLC

VARIABLES
    phase,              \* "idle", "plan" (render prompt, invoke model, parse), "act" (dispatch), "returned"
    turn,               \* process_query calls started on this agent
    query,              \* the query of the current call, as the caller wrote it
    context,            \* the context map of the current call, rendered (<<>>: none or empty)
    formatted_query,    \* the input of the executor: the query after _format_query_with_context
    iterations,         \* the executor's iteration counter
    llm_calls,          \* prompts rendered and model calls made in the current run
    llm_outputs,        \* the model's completions of the current run, oldest first
    tool_runs,          \* executions of registered tools in the current run
    intermediate_steps, \* the scratchpad: (action, observation) entries, oldest first
    pending,            \* the AgentAction waiting for dispatch
    outcome,            \* how the run ended: "finish", "stopped", "error" ("none" while it runs)
    result,             \* what process_query gave its caller
    chat_memory,        \* memory.chat_memory.messages: the transcript
    last_address,       \* memory.entity_context.last_address (<<>> is None)
    text,       \* parser harness: the text handed to Web3AgentOutputParser.invoke
    parsed,     \* parser harness: what parse returned or raised ("none" before the call)
    tool_call,  \* tool harness: the arguments of a direct call of a tool's execute
    exec_result, \* tool harness: what execute returned or raised ("none" before the call)
    resets,     \* calls of clear_memory made on this agent
    now,        \* time.time(), in ticks
    last_request_time, \* the rate limiters' recorded call times, by key
    http,       \* the HTTP exchange under way or last completed
    history,    \* what get_conversation_history returned to the last history request
    callers,    \* the sessions that have sent a process-query request
    checks,     \* each caller of check_rate_limit: where it is, and on which key
    lock,       \* RateLimiter.lock: who holds it
    accepted,   \* the checks let through so far: key and time, in order
    req,        \* the make_request call under way or last finished
    retry,      \* the call of a retry_on_failure wrapper under way or last finished
    runs,       \* concurrent process_query calls on one agent: where each one is
    cache,      \* the tools' caches: per key, the time and the data of the entry
    lookup      \* the cached lookup under way or last finished

agent_vars == <<phase, turn, query, context, formatted_query, iterations, llm_calls, llm_outputs,
                tool_runs, intermediate_steps, pending, outcome, result, chat_memory,
                last_address>>
client_vars == <<checks, lock, accepted, req, retry, runs, cache, lookup>>
service_vars == <<resets, now, last_request_time, http, history, callers, client_vars>>
harness_vars == <<text, parsed, tool_call, exec_result, service_vars>>
vars == <<agent_vars, harness_vars>>

(***************************************************************************)
(* Characters and strings                                                  *)
(***************************************************************************)
NL == "\n"

\* str.strip() with no argument removes leading and trailing whitespace.
IsSpace(c) == c \in {" ", NL, "\t", "\r"}

Min(S) == CHOOSE x \in S : \A y \in S : x <= y
Max(S) == CHOOSE x \in S : \A y \in S : x >= y

RECURSIVE lstrip(_)
lstrip(s) ==
    IF s = <<>> THEN <<>>
    ELSE IF IsSpace(Head(s)) THEN lstrip(Tail(s)) ELSE s

RECURSIVE rstrip(_)
rstrip(s) ==
    IF s = <<>> THEN <<>>
    ELSE IF IsSpace(s[Len(s)]) THEN rstrip(SubSeq(s, 1, Len(s) - 1)) ELSE s

strip(s) == rstrip(lstrip(s))

\* m occurs in s at index i.
StartsAt(s, i, m) ==
    /\ i >= 1
    /\ i + Len(m) - 1 <= Len(s)
    /\ \A k \in 1..Len(m) : s[i + k - 1] = m[k]

Occurrences(s, m) == {i \in 1..Len(s) : StartsAt(s, i, m)}

\* Python's `m in s`.
Contains(s, m) == Occurrences(s, m) # {}

startswith(s, m) == StartsAt(s, 1, m)
endswith(s, m) == Len(m) <= Len(s) /\ StartsAt(s, Len(s) - Len(m) + 1, m)

\* The markers of the output grammar.
FinalAnswerMarker == <<"F","i","n","a","l"," ","A","n","s","w","e","r",":">>
ActionMarker == <<"A","c","t","i","o","n",":">>
ActionInputMarker == <<"A","c","t","i","o","n"," ","I","n","p","u","t",":">>

\* text.split(sep)[1]: the piece between the first separator and the next one.
split_second(s, sep) ==
    LET occ == Occurrences(s, sep) IN
    IF occ = {} THEN s
    ELSE LET rest == SubSeq(s, Min(occ) + Len(sep), Len(s))
             occ2 == Occurrences(rest, sep) IN
         IF occ2 = {} THEN rest ELSE SubSeq(rest, 1, Min(occ2) - 1)

\* text.split(sep)[-1]: split scans left to right for non-overlapping occurrences
\* of sep; the last piece is what follows the last occurrence the scan finds.
RECURSIVE split_last(_, _)
split_last(s, sep) ==
    LET occ == Occurrences(s, sep) IN
    IF occ = {} THEN s
    ELSE split_last(SubSeq(s, Min(occ) + Len(sep), Len(s)), sep)

(***************************************************************************)
(* json.loads, on the texts the model can build: an object whose keys are  *)
(* strings and whose values are strings, integers or objects.  The result  *)
(* keeps the top-level members in order (a later duplicate key wins, as in *)
(* Python's dict).                                                         *)
(***************************************************************************)
Digits == {"0", "1", "2", "3", "4", "5", "6", "7", "8", "9"}
ControlChars == {NL, "\t", "\r"}

\* The first index >= i that holds no JSON whitespace (Len(s) + 1 when none).
SkipWs(s, i) ==
    LET stops == {j \in i..Len(s) : ~IsSpace(s[j])} IN
    IF stops = {} THEN Len(s) + 1 ELSE Min(stops)

JsonFail == [end |-> 0, members |-> <<>>]

\* A string starting at i: the index after its closing quote, 0 when it is none.
\* A raw control character inside a string is a decode error (strict mode).
json_string(s, i) ==
    IF i > Len(s) \/ s[i] # "\"" THEN 0
    ELSE LET closes == {j \in (i + 1)..Len(s) : s[j] = "\""} IN
         IF closes = {} THEN 0
         ELSE LET j == Min(closes) IN
              IF \E k \in (i + 1)..(j - 1) : s[k] \in ControlChars \cup {"\\"}
              THEN 0 ELSE j + 1

\* An integer starting at i: the index after it, 0 when it is none.
json_number(s, i) ==
    LET d == IF i <= Len(s) /\ s[i] = "-" THEN i + 1 ELSE i IN
    IF d > Len(s) \/ s[d] \notin Digits THEN 0
    ELSE IF s[d] = "0" THEN d + 1
    ELSE LET stops == {j \in d..Len(s) : s[j] \notin Digits} IN
         IF stops = {} THEN Len(s) + 1 ELSE Min(stops)

RECURSIVE json_value(_, _)
RECURSIVE json_members(_, _, _)
RECURSIVE json_object(_, _)

json_value(s, i) ==
    IF i > Len(s) THEN 0
    ELSE IF s[i] = "{" THEN json_object(s, i).end
    ELSE IF s[i] = "\"" THEN json_string(s, i)
    ELSE json_number(s, i)

json_members(s, i, acc) ==
    LET k == json_string(s, i) IN
    IF k = 0 THEN JsonFail
    ELSE LET c == SkipWs(s, k) IN
         IF c > Len(s) \/ s[c] # ":" THEN JsonFail
         ELSE LET v == SkipWs(s, c + 1)
                  e == json_value(s, v) IN
              IF e = 0 THEN JsonFail
              ELSE LET d == SkipWs(s, e)
                       acc2 == Append(acc, [key |-> SubSeq(s, i + 1, k - 2),
                                            val |-> SubSeq(s, v, e - 1)]) IN
                   IF d > Len(s) THEN JsonFail
                   ELSE IF s[d] = "}" THEN [end |-> d + 1, members |-> acc2]
                   ELSE IF s[d] = "," THEN json_members(s, SkipWs(s, d + 1), acc2)
                   ELSE JsonFail

json_object(s, i) ==
    LET j == SkipWs(s, i + 1) IN
    IF j > Len(s) THEN JsonFail
    ELSE IF s[j] = "}" THEN [end |-> j + 1, members |-> <<>>]
    ELSE json_members(s, j, <<>>)

\* json.loads(s) for a text whose first non-blank character is "{": ok is FALSE
\* where Python raises JSONDecodeError.
json_loads(s) ==
    LET i == SkipWs(s, 1)
        r == IF i <= Len(s) /\ s[i] = "{" THEN json_object(s, i) ELSE JsonFail IN
    IF r.end # 0 /\ SkipWs(s, r.end) = Len(s) + 1
    THEN [ok |-> TRUE, members |-> r.members]
    ELSE [ok |-> FALSE, members |-> <<>>]

\* dict.get(key): the value text of the last member with that key, <<>> when absent.
HasKey(members, key) == \E i \in 1..Len(members) : members[i].key = key
GetKey(members, key) ==
    IF HasKey(members, key)
    THEN members[Max({i \in 1..Len(members) : members[i].key = key})].val
    ELSE <<>>

(***************************************************************************)
(* Web3AgentOutputParser.parse                                             *)
(***************************************************************************)
NoMatch == [matched |-> FALSE, group1 |-> <<>>]

\* The end of the greedy run of spaces " *" that starts at index j.
SkipSpaces(s, j) ==
    LET stops == {k \in j..Len(s) : s[k] # " "} IN
    IF stops = {} THEN Len(s) + 1 ELSE Min(stops)

\* re.search(r"Action: *(.*?)[\n$]", text).  "." matches no newline (no DOTALL),
\* and [\n$] is a character class: it takes one character, a newline or a
\* dollar sign, so the group ends at the first of these after the marker.
\* search tries the start positions from the left.
action_terminator(s, b) ==
    LET ends == {p \in b..Len(s) : s[p] \in {NL, "$"}} IN
    IF ends = {} THEN 0 ELSE Min(ends)

re_search_action(s) ==
    LET starts == {i \in Occurrences(s, ActionMarker) :
                     action_terminator(s, SkipSpaces(s, i + Len(ActionMarker))) # 0} IN
    IF starts = {} THEN NoMatch
    ELSE LET b == SkipSpaces(s, Min(starts) + Len(ActionMarker))
             p == action_terminator(s, b) IN
         [matched |-> TRUE, group1 |-> SubSeq(s, b, p - 1)]

\* re.search(r"Action Input: *(.*?)(?:$|\n)", text, re.DOTALL).  The lazy group
\* grows until the end of the text or a newline follows, whichever is first.
input_terminator(s, b) ==
    LET ends == {p \in b..Len(s) : s[p] = NL} IN
    IF ends = {} THEN Len(s) + 1 ELSE Min(ends)

re_search_action_input(s) ==
    LET starts == Occurrences(s, ActionInputMarker) IN
    IF starts = {} THEN NoMatch
    ELSE LET b == SkipSpaces(s, Min(starts) + Len(ActionInputMarker))
             p == input_terminator(s, b) IN
         [matched |-> TRUE, group1 |-> SubSeq(s, b, p - 1)]

NoInput == [is_dict |-> FALSE, raw |-> <<>>, members |-> <<>>]

\* A decoder that trusts the braces: whatever is between them, the input becomes
\* an object (an empty one when the text does not decode).
decode_action_input_by_shape(action_input) ==
    IF startswith(action_input, <<"{">>) /\ endswith(action_input, <<"}">>)
    THEN [is_dict |-> TRUE, raw |-> action_input,
          members |-> json_loads(action_input).members]
    ELSE [is_dict |-> FALSE, raw |-> action_input, members |-> <<>>]

\* Lines 430-434: decode the action input when it looks like an object and decodes.
decode_action_input(action_input) ==
    IF startswith(action_input, <<"{">>) /\ endswith(action_input, <<"}">>)
       /\ json_loads(action_input).ok
    THEN [is_dict |-> TRUE, raw |-> action_input,
          members |-> json_loads(action_input).members]
    ELSE [is_dict |-> FALSE, raw |-> action_input, members |-> <<>>]

\* A finish that returns the whole completion instead of the text after the marker.
AgentFinish_whole_text(output, log) ==
    [kind |-> "finish", output |-> log, tool |-> <<>>, tool_input |-> NoInput,
     log |-> log]

AgentFinish(output, log) ==
    [kind |-> "finish", output |-> output, tool |-> <<>>, tool_input |-> NoInput,
     log |-> log]
AgentAction(tool, tool_input, log) ==
    [kind |-> "action", output |-> <<>>, tool |-> tool, tool_input |-> tool_input,
     log |-> log]
\* raise ValueError("Could not parse LLM output: ...")
RaiseValueError(log) ==
    [kind |-> "raise", output |-> <<>>, tool |-> <<>>, tool_input |-> NoInput,
     log |-> log]

\* A parser that looks for the action markers first and takes the final answer
\* only when they are absent.
has_final_answer_after_action(t) ==
    /\ Contains(t, FinalAnswerMarker)
    /\ ~(re_search_action(t).matched /\ re_search_action_input(t).matched)

\* The check of line 413.
has_final_answer(t) == Contains(t, FinalAnswerMarker)

\* A check that gives up only when both markers are missing.
cannot_parse_both(am, aim) == ~am.matched /\ ~aim.matched

\* The check of line 423.
cannot_parse(am, aim) == ~am.matched \/ ~aim.matched

parse_action(t) ==
    LET am == re_search_action(t)
        aim == re_search_action_input(t) IN
    IF cannot_parse(am, aim) THEN RaiseValueError(t)
    ELSE AgentAction(strip(am.group1), decode_action_input(strip(aim.group1)), t)

parse(txt) ==
    LET t == strip(txt) IN
    IF has_final_answer(t)
    THEN AgentFinish(strip(split_last(t, FinalAnswerMarker)), t)
    ELSE parse_action(t)

(***************************************************************************)
(* The tools (tools/base.py, wallet.py, token.py, nft.py, knowledge.py)    *)
(*                                                                         *)
(* A call of execute is described by what it is given: whether the tool's  *)
(* primary argument (address, symbol, contract_address, query) is missing, *)
(* malformed or valid, whether an optional argument comes with it, how the *)
(* upstream service answers, and whether the vector store was initialised. *)
(***************************************************************************)
WalletToolName == <<"W","a","l","l","e","t","T","o","o","l">>
TokenToolName == <<"T","o","k","e","n","T","o","o","l">>
NFTToolName == <<"N","F","T","T","o","o","l">>
KnowledgeToolName == <<"K","n","o","w","l","e","d","g","e","T","o","o","l">>

\* Web3Agent._initialize_tools: tool_classes (DeFiTool is not in the list).
RegisteredTools == {WalletToolName, TokenToolName, NFTToolName, KnowledgeToolName}

PrimaryShapes == {"missing", "malformed", "valid"}
UpstreamOutcomes == {"ok", "http_error", "timeout", "rate_limited"}

NoValue == [status |-> "", tool |-> <<>>, error |-> ""]
Returned(v) == [raised |-> FALSE, exc |-> "", value |-> v]
Raised(e) == [raised |-> TRUE, exc |-> e, value |-> NoValue]

\* BaseTool.format_output / BaseTool.handle_error
format_output(name) == [status |-> "success", tool |-> name, error |-> ""]
handle_error(name, e) == [status |-> "error", tool |-> name, error |-> e]

\* retry_on_failure(max_attempts, delay): the wrapper's first pass of the loop.
\* A failed attempt that is not the last one goes to asyncio.sleep(...), and
\* tools/base.py never imports asyncio: that line raises NameError out of the
\* except block, so no second attempt is made.  With max_attempts = 1 the
\* wrapper raises the attempt's own error.
max_attempts == 3

retry_on_failure(attempts, first) ==
    IF ~first.raised THEN first
    ELSE IF 0 < attempts - 1 THEN Raised("NameError")
    ELSE first

\* execute without its try/except: the body's exception reaches the caller.
execute_unguarded(name, body) == body

\* try: <body> except Exception as e: return await self.handle_error(e)
execute_guarded(name, body) ==
    IF body.raised THEN Returned(handle_error(name, body.exc)) ELSE body

\* One upstream fetch of a tool that goes through APIHandler.make_request
\* (NFTTool): a rate-limit rejection raises HTTPException, a failure result
\* (HTTP status, exhausted retries) is turned into ToolException by the tool.
api_fetch(upstream) ==
    IF upstream = "ok" THEN Returned(NoValue)
    ELSE IF upstream = "rate_limited" THEN Raised("HTTPException")
    ELSE Raised("ToolException")

\* One upstream fetch through aiohttp directly (WalletTool, TokenTool).
direct_fetch(upstream) ==
    IF upstream = "ok" THEN Returned(NoValue) ELSE Raised("ToolException")

\* WalletTool.execute(*args, **kwargs): the body inside try.
wallet_body(call) ==
    IF call.primary = "missing" THEN Raised("ValidationError")
    ELSE IF call.primary = "malformed" THEN Raised("ToolException")
    ELSE IF retry_on_failure(max_attempts, direct_fetch(call.upstream)).raised
         THEN retry_on_failure(max_attempts, direct_fetch(call.upstream))
         ELSE Returned(format_output(WalletToolName))

wallet_execute(call) == execute_guarded(WalletToolName, wallet_body(call))

\* TokenTool.execute(*args, **kwargs): the body inside try.  Without a symbol
\* and without a token address the command is rejected; get_token_info is not
\* defined, so the token-address branch fails too.
token_body(call) ==
    IF call.primary = "missing"
    THEN (IF call.extra THEN Raised("AttributeError") ELSE Raised("ToolException"))
    ELSE IF call.primary = "malformed" THEN Raised("ToolException")
    ELSE IF direct_fetch(call.upstream).raised THEN direct_fetch(call.upstream)
    ELSE Returned(format_output(TokenToolName))

token_execute(call) == execute_guarded(TokenToolName, token_body(call))

\* NFTTool.execute(contract_address, **kwargs): the body inside try.
nft_body(call) ==
    IF call.primary = "malformed" THEN Raised("ToolException")
    ELSE IF retry_on_failure(max_attempts, api_fetch(call.upstream)).raised
         THEN retry_on_failure(max_attempts, api_fetch(call.upstream))
         ELSE Returned(format_output(NFTToolName))

\* contract_address is a required parameter: a call without it fails when the
\* arguments are bound, before the try block is entered.
nft_execute(call) ==
    IF call.primary = "missing" THEN Raised("TypeError")
    ELSE execute_guarded(NFTToolName, nft_body(call))

\* KnowledgeTool.execute(query, **kwargs): the body inside try.
knowledge_body(call) ==
    IF call.primary = "malformed" THEN Raised("ToolException")
    ELSE IF ~call.vector_store THEN Raised("ToolException")
    ELSE IF call.upstream # "ok" THEN Raised("ToolException")
    ELSE Returned(format_output(KnowledgeToolName))

\* execute is itself wrapped by @retry_on_failure(): a call without query fails
\* inside the wrapper's try and is handled as a failed attempt.
knowledge_execute(call) ==
    retry_on_failure(max_attempts,
        IF call.primary = "missing" THEN Raised("TypeError")
        ELSE execute_guarded(KnowledgeToolName, knowledge_body(call)))

execute(call) ==
    IF call.tool = WalletToolName THEN wallet_execute(call)
    ELSE IF call.tool = TokenToolName THEN token_execute(call)
    ELSE IF call.tool = NFTToolName THEN nft_execute(call)
    ELSE knowledge_execute(call)

(***************************************************************************)
(* Conversation memory (EnhancedConversationMemory) and query rewriting    *)
(***************************************************************************)
UpperLetters == <<"A","B","C","D","E","F","G","H","I","J","K","L","M",
                  "N","O","P","Q","R","S","T","U","V","W","X","Y","Z">>
LowerLetters == <<"a","b","c","d","e","f","g","h","i","j","k","l","m",
                  "n","o","p","q","r","s","t","u","v","w","x","y","z">>

lower_char(c) ==
    IF \E i \in 1..Len(UpperLetters) : UpperLetters[i] = c
    THEN LowerLetters[CHOOSE i \in 1..Len(UpperLetters) : UpperLetters[i] = c]
    ELSE c

\* str.lower()
lower(s) == [i \in 1..Len(s) |-> lower_char(s[i])]

\* [a-fA-F0-9]
HexChars == Digits \cup {"a","b","c","d","e","f","A","B","C","D","E","F"}
AddressLen == 40

\* re.findall(r'0x[a-fA-F0-9]{40}', s): the start indices of the matches a scan
\* from index i finds, left to right and without overlap.
AddressAt(s, i) ==
    /\ StartsAt(s, i, <<"0", "x">>)
    /\ i + 1 + AddressLen <= Len(s)
    /\ \A k \in 1..AddressLen : s[i + 1 + k] \in HexChars

\* eth_addresses[0] when the list is not empty, <<>> otherwise.
first_address(s) ==
    LET starts == {i \in 1..Len(s) : AddressAt(s, i)} IN
    IF starts = {} THEN <<>>
    ELSE SubSeq(s, Min(starts), Min(starts) + 1 + AddressLen)

HumanMessage(content) == [role |-> "human", content |-> content]
AIMessage(content) == [role |-> "ai", content |-> content]

\* A save that appends the answer before the question.
save_messages_answer_first(chat, input, output) ==
    chat \o <<AIMessage(output), HumanMessage(input)>>

\* ConversationBufferMemory.save_context: the input and the output are appended.
save_messages(chat, input, output) ==
    chat \o <<HumanMessage(input), AIMessage(output)>>

\* A save that stores whatever the search gave, also when it found nothing.
save_address_or_none(last, input) == first_address(lower(input))

\* EnhancedConversationMemory.save_context, lines 50-55: the addresses are
\* searched in the lower-cased input, and the first one is stored.
save_address(last, input) ==
    IF first_address(lower(input)) # <<>> THEN first_address(lower(input)) ELSE last

\* An executor whose save goes through the save_context override of lines
\* 45-55, so that the text it was given is searched for addresses too.
executor_saved_address_through_override(last, input) == save_address(last, input)

\* The executor's own save (memory=self.memory, run through ainvoke): when the
\* chain ends it saves its input and output with the memory's asynchronous
\* save, which appends the two messages to chat_memory and does not go through
\* the save_context override of lines 45-55 (the override is reached only by
\* the direct call of line 276).  The stored address is left as it was.
executor_saved_address(last, input) == last

WordAddress == <<"a","d","d","r","e","s","s">>
CueWords == {<<"i","t">>, <<"t","h","a","t">>, <<"t","h","e">>, <<"t","h","i","s">>}
ForAddress == <<" ","f","o","r"," ","a","d","d","r","e","s","s"," ">>
ContextHeader == <<NL,"C","o","n","t","e","x","t",":",NL>>

\* Web3Agent._format_query_with_context.  context_str is the rendered context
\* map, <<>> for an empty or absent map.
needs_address(q, last) ==
    /\ ~Contains(lower(q), WordAddress)
    /\ last # <<>>
    /\ \E w \in CueWords : Contains(lower(q), w)

_format_query_with_context(q, context_str, last) ==
    LET q1 == IF needs_address(q, last) THEN q \o ForAddress \o last ELSE q IN
    IF context_str # <<>> THEN q1 \o ContextHeader \o context_str ELSE q1

(***************************************************************************)
(* The agent executor as Web3Agent._create_agent_executor configures it    *)
(* (max_iterations=5, handle_parsing_errors=True) and Web3Agent            *)
(* .process_query drives it.  The executor is LangChain's AgentExecutor:   *)
(* each iteration plans (renders the prompt, calls the model, parses) and, *)
(* for an AgentAction, dispatches the tool by name and appends the         *)
(* (action, observation) step; it stops with a fixed text when the         *)
(* iteration counter reaches max_iterations.                               *)
(***************************************************************************)
max_iterations == 5

\* AgentExecutor's answer when the iteration limit stops the loop.
StoppedText ==
    <<"A","g","e","n","t"," ","s","t","o","p","p","e","d"," ","d","u","e"," ",
      "t","o"," ","i","t","e","r","a","t","i","o","n"," ","l","i","m","i","t",
      " ","o","r"," ","t","i","m","e"," ","l","i","m","i","t",".">>

\* The completions the model is let to give.
AnswerText == <<"o","k">>
OutFinal == FinalAnswerMarker \o <<" ">> \o AnswerText
OutToken ==
    <<"A","c","t","i","o","n",":"," ","T","o","k","e","n","T","o","o","l",NL,
      "A","c","t","i","o","n"," ","I","n","p","u","t",":"," ",
      "{","\"","s","y","m","b","o","l","\"",":"," ","\"","B","T","C","\"","}">>
OutWalletNoAddress ==
    <<"A","c","t","i","o","n",":"," ","W","a","l","l","e","t","T","o","o","l",
      NL,"A","c","t","i","o","n"," ","I","n","p","u","t",":"," ","{","}">>
OutUnknownTool ==
    <<"A","c","t","i","o","n",":"," ","t","o","k","e","n","t","o","o","l",NL,
      "A","c","t","i","o","n"," ","I","n","p","u","t",":"," ","B","T","C">>
OutUnparsable ==
    <<"I"," ","d","o"," ","n","o","t"," ","k","n","o","w">>

ModelOutputs == {OutFinal, OutToken, OutWalletNoAddress, OutUnknownTool, OutUnparsable}

\* The queries and rendered context maps a caller is let to send.
QueryGreeting == <<"h","i">>
QueryWithAddress ==
    <<"c","h","e","c","k"," ","0","x","A","b","C","d","E","F","0","1","2","3",
      "4","5","6","7","8","9","A","b","C","d","E","F","0","1","2","3","4","5",
      "6","7","8","9","A","B","C","D","E","F","0","1">>
QueryFollowUp ==
    <<"w","h","a","t"," ","a","b","o","u","t"," ","i","t">>
Queries == {QueryGreeting, QueryWithAddress, QueryFollowUp}
NoContext == <<>>
ContextAddress ==
    <<"0","x","1","1","1","1","1","1","1","1","1","1","1","1","1","1","1","1",
      "1","1","1","1","1","1","1","1","1","1","1","1","1","1","1","1","1","1",
      "1","1","1","1","1","1">>
SomeContext == <<"k", ":", " ">> \o ContextAddress
\* The calls made: a query with an address, a follow-up with a cue word (a plain
\* query while no address is stored), and a greeting that comes with a context map.
Requests == {<<QueryWithAddress, NoContext>>, <<QueryFollowUp, NoContext>>,
             <<QueryGreeting, SomeContext>>}

\* How the upstream service answers a tool that the loop dispatches.
LoopUpstream == {"ok", "http_error"}

MaxTurns == 2

\* A lookup that ignores the case of the requested name.
lookup_tool_ignoring_case(name) ==
    IF \E t \in RegisteredTools : lower(t) = lower(name)
    THEN CHOOSE t \in RegisteredTools : lower(t) = lower(name)
    ELSE <<>>

\* name_to_tool_map lookup of the executor over tools=wrapped_tools: the tool
\* registered under exactly this name, <<>> when there is none.
lookup_tool(name) == IF name \in RegisteredTools THEN name ELSE <<>>

\* A loop that allows one iteration more.
should_continue_inclusive(i) == i <= max_iterations

\* AgentExecutor._should_continue with max_iterations=5.
should_continue(i) == i < max_iterations

\* handle_parsing_errors=True makes the executor turn an OutputParserException
\* of the planning step into an observation; any other exception leaves the
\* executor.  parse raises ValueError.
handle_parsing_errors == TRUE
ParseErrorRaised == "ValueError"
executor_recovers(exc) == handle_parsing_errors /\ exc = "OutputParserException"

InvalidToolObservation(name) ==
    [kind |-> "invalid_tool", status |-> "", tool |-> name, error |-> ""]
ParseErrorObservation ==
    [kind |-> "parse_error", status |-> "", tool |-> <<>>, error |-> ""]
ToolObservation(env) ==
    [kind |-> "envelope", status |-> env.status, tool |-> env.tool, error |-> env.error]
Step(action, observation) ==
    [log |-> action.log, tool |-> action.tool, observation |-> observation]

\* The args_schema of each tool (WalletToolInputs, NFTToolInputs,
\* KnowledgeToolInputs, TokenToolInputs): the required field, and the field that
\* carries the primary argument.
KeyAddress == <<"a","d","d","r","e","s","s">>
KeyContractAddress == <<"c","o","n","t","r","a","c","t","_","a","d","d","r","e","s","s">>
KeyQuery == <<"q","u","e","r","y">>
KeySymbol == <<"s","y","m","b","o","l">>

RequiredKey(tool) ==
    IF tool = WalletToolName THEN KeyAddress
    ELSE IF tool = NFTToolName THEN KeyContractAddress
    ELSE IF tool = KnowledgeToolName THEN KeyQuery
    ELSE <<>>

PrimaryKey(tool) == IF tool = TokenToolName THEN KeySymbol ELSE RequiredKey(tool)

IsJsonString(v) == v # <<>> /\ Head(v) = "\""
Unquote(v) == SubSeq(v, 2, Len(v) - 1)

IsAlnum(s) ==
    /\ s # <<>>
    /\ \A i \in 1..Len(s) :
         \/ s[i] \in Digits
         \/ \E k \in 1..Len(UpperLetters) : s[i] \in {UpperLetters[k], LowerLetters[k]}

\* validate_address, on texts in one letter case: "0x" and 40 hexadecimal digits.
is_address(s) == Len(s) = AddressLen + 2 /\ AddressAt(s, 1)

\* What each tool's own validation accepts as its primary argument.
valid_primary(tool, v) ==
    IF tool = TokenToolName THEN IsAlnum(strip(v))
    ELSE IF tool = KnowledgeToolName THEN v # <<>>
    ELSE is_address(v)

\* The arguments execute receives from StructuredTool: a string input is passed
\* as the one positional argument, a decoded object as keyword arguments.
tool_call_of(tool, tool_input, upstream) ==
    LET key == PrimaryKey(tool)
        given == IF tool_input.is_dict THEN HasKey(tool_input.members, key) ELSE TRUE
        value == IF tool_input.is_dict THEN Unquote(GetKey(tool_input.members, key))
                 ELSE tool_input.raw IN
    [tool |-> tool,
     primary |-> IF ~given THEN "missing"
                 ELSE IF valid_primary(tool, value) THEN "valid" ELSE "malformed",
     extra |-> tool_input.is_dict /\ \E i \in 1..Len(tool_input.members) :
                                        tool_input.members[i].key # key,
     upstream |-> upstream,
     vector_store |-> FALSE]

\* StructuredTool.arun: a decoded object is validated against args_schema first
\* (a missing required field or a non-string value raises ValidationError and the
\* tool is not run); then the wrapped execute runs.
schema_rejects(tool, tool_input) ==
    /\ tool_input.is_dict
    /\ \/ RequiredKey(tool) # <<>> /\ ~HasKey(tool_input.members, RequiredKey(tool))
       \/ /\ HasKey(tool_input.members, PrimaryKey(tool))
          /\ ~IsJsonString(GetKey(tool_input.members, PrimaryKey(tool)))

tool_arun(tool, tool_input, upstream) ==
    IF schema_rejects(tool, tool_input) THEN Raised("ValidationError")
    ELSE execute(tool_call_of(tool, tool_input, upstream))

(***************************************************************************)
(* Web3Agent.process_query                                                 *)
(***************************************************************************)
NoResult == [raised |-> FALSE, status |-> "none", response |-> <<>>,
             error_type |-> "", type |-> ""]
NoAction == AgentAction(<<>>, NoInput, <<>>)

QuotedSuccess == <<"\"","s","u","c","c","e","s","s","\"">>
QuotedError == <<"\"","e","r","r","o","r","\"">>
KeyStatus == <<"s","t","a","t","u","s">>
KeyResponse == <<"r","e","s","p","o","n","s","e">>

\* Web3Agent.format_error_response
format_error_response(exc) ==
    [raised |-> FALSE, status |-> "error", response |-> <<>>,
     error_type |-> exc, type |-> ""]

TextResponse(response) ==
    [raised |-> FALSE, status |-> "success", response |-> response,
     error_type |-> "", type |-> "text"]

\* The dict json.loads returned, seen through the fields a caller reads.  type
\* "json" marks it; response keeps the raw value text of its "response" member.
JsonResponse(members) ==
    [raised |-> FALSE,
     status |-> IF ~HasKey(members, KeyStatus) THEN "absent"
                ELSE IF GetKey(members, KeyStatus) = QuotedSuccess THEN "success"
                ELSE IF GetKey(members, KeyStatus) = QuotedError THEN "error"
                ELSE "other",
     response |-> GetKey(members, KeyResponse),
     error_type |-> "", type |-> "json"]

\* Web3Agent._format_response
_format_response(response) ==
    IF startswith(strip(response), <<"{">>) /\ json_loads(response).ok
    THEN JsonResponse(json_loads(response).members)
    ELSE TextResponse(response)

\* formatted_response.get("response", ""), and whether AIMessage accepts it as
\* content (a string; the dict's value may be a number or an object).
response_text(fr) ==
    IF fr.type = "json" THEN (IF IsJsonString(fr.response) THEN Unquote(fr.response) ELSE <<>>)
    ELSE fr.response
response_is_text(fr) == fr.type # "json" \/ fr.response = <<>> \/ IsJsonString(fr.response)

\* process_query without its try/except: the exception reaches the caller.
process_query_unguarded(exc) ==
    [raised |-> TRUE, status |-> "none", response |-> <<>>, error_type |-> exc, type |-> ""]

\* except Exception as e: return self.format_error_response(e)
process_query_guarded(exc) == format_error_response(exc)

(***************************************************************************)
(* utils/api.py: RateLimiter and the limiters the server starts with       *)
(* (main.py, startup_event).  Time is counted in ticks, TicksPerSecond to  *)
(* the second.                                                             *)
(***************************************************************************)
TicksPerSecond == 10

\* api_handler.initialize_rate_limiters({...}), in the order of the dict.
ApiNames == <<"default", "opensea", "etherscan", "defillama">>
RATE_LIMIT_PER_SECOND == 10
requests_per_second(api_name) ==
    IF api_name = "default" THEN RATE_LIMIT_PER_SECOND
    ELSE IF api_name = "opensea" THEN 2
    ELSE IF api_name = "etherscan" THEN 5
    ELSE 10

\* last_request_time: no entry for a key, or the time of its last recorded call.
NoEntry == [known |-> FALSE, at |-> 0]
Entry(t) == [known |-> TRUE, at |-> t]

\* A limiter that lets a call through when less than the interval has passed.
too_early_inverted(entry, rps, t) ==
    entry.known /\ ~((t - entry.at) * rps < TicksPerSecond)

\* Lines 19-21: the key is known and time_passed < 1.0 / requests_per_second.
too_early(entry, rps, t) ==
    entry.known /\ (t - entry.at) * rps < TicksPerSecond

\* A limiter that records the time of every check, refused ones too.
check_rate_limit_recording_all(lrt, key, rps, t) ==
    [accepted |-> ~too_early(lrt[key], rps, t), lrt |-> [lrt EXCEPT ![key] = Entry(t)]]

\* RateLimiter.check_rate_limit(key) at time t, on the recorded times lrt:
\* accepted is FALSE where HTTPException(429) is raised; an accepted check
\* records t for its key.
check_rate_limit(lrt, key, rps, t) ==
    IF too_early(lrt[key], rps, t)
    THEN [accepted |-> FALSE, lrt |-> lrt]
    ELSE [accepted |-> TRUE, lrt |-> [lrt EXCEPT ![key] = Entry(t)]]

\* APIHandler.check_rate_limits: every limiter is checked in turn, from the
\* i-th on; the first rejection raises and the later ones are not reached.
RECURSIVE check_rate_limits_from(_, _, _)
check_rate_limits_from(lrt, i, t) ==
    IF i > Len(ApiNames) THEN [accepted |-> TRUE, lrt |-> lrt]
    ELSE LET c == check_rate_limit(lrt, ApiNames[i], requests_per_second(ApiNames[i]), t) IN
         IF c.accepted THEN check_rate_limits_from(c.lrt, i + 1, t) ELSE c

check_rate_limits(lrt, t) == check_rate_limits_from(lrt, 1, t)

NoLimiterCalls == [k \in {ApiNames[i] : i \in 1..Len(ApiNames)} |-> NoEntry]

\* Web3Agent.get_conversation_history
get_conversation_history(chat) ==
    [i \in 1..Len(chat) |->
        [role |-> IF chat[i].role = "human" THEN "user" ELSE "assistant",
         content |-> chat[i].content]]

\* No request has been received; code 0 stands for "no response sent yet".
\* What make_request gave back: nothing yet ("none"), a dict, or None.
\* The flags say which of "data", "error" and "status_code" the dict carries.
NoReturn == [kind |-> "none", success |-> FALSE, data |-> FALSE, error |-> FALSE,
             status_code |-> FALSE]
ReturnedNone == [kind |-> "None", success |-> FALSE, data |-> FALSE, error |-> FALSE,
                 status_code |-> FALSE]
SuccessDict == [kind |-> "dict", success |-> TRUE, data |-> TRUE, error |-> FALSE,
                status_code |-> TRUE]
HttpErrorDict == [kind |-> "dict", success |-> FALSE, data |-> FALSE, error |-> TRUE,
                  status_code |-> TRUE]
FailureDict == [kind |-> "dict", success |-> FALSE, data |-> FALSE, error |-> TRUE,
                status_code |-> FALSE]

NoRequest == [pc |-> "idle", api_name |-> "none", retry_count |-> 0, retry_delay |-> 0,
              attempt |-> 0, attempts |-> 0, failures |-> 0, waits |-> <<>>,
              last |-> "none", ret |-> NoReturn, n |-> 0]

NoRetry == [pc |-> "idle", outcomes |-> <<>>, attempts |-> 0,
            ret |-> [raised |-> FALSE, exc |-> "none", value |-> NoValue]]

\* f"stats_{contract_address}" in NFTTool.cache, f"protocol_{protocol_id}" in
\* DeFiTool.cache.
CacheKeys == {"stats_a", "stats_b", "protocol_a"}
NoCacheEntry == [known |-> FALSE, at |-> 0, data |-> 0, history |-> FALSE]
NoLookup == [pc |-> "idle", key |-> "none", ret |-> "none", data |-> 0, last |-> "none",
             requests |-> 0, n |-> 0]

ConcurrentRuns == {"r1", "r2"}
NoRun == [pc |-> "idle", query |-> <<>>, formatted_query |-> <<>>, output |-> <<>>,
          turns |-> {}, n |-> 0]

CheckCallers == {"c1", "c2"}
NoCheck == [pc |-> "idle", key |-> "none", n |-> 0]

ClientsIdle ==
    /\ checks = [c \in CheckCallers |-> NoCheck]
    /\ lock = "free"
    /\ accepted = <<>>
    /\ req = NoRequest
    /\ retry = NoRetry
    /\ runs = [r \in ConcurrentRuns |-> NoRun]
    /\ cache = [k \in CacheKeys |-> NoCacheEntry]
    /\ lookup = NoLookup

NoExchange == [request |-> "none", session |-> "none", first |-> FALSE, n |-> 0,
               code |-> 0, status |-> "none"]

ServicesIdle ==
    /\ resets = 0
    /\ now = 0
    /\ last_request_time = NoLimiterCalls
    /\ http = NoExchange
    /\ history = <<>>
    /\ callers = {}
    /\ ClientsIdle

NotParsed == [kind |-> "none", output |-> <<>>, tool |-> <<>>, tool_input |-> NoInput,
              log |-> <<>>]

NoCall == [tool |-> <<>>, primary |-> "missing", extra |-> FALSE,
           upstream |-> "ok", vector_store |-> FALSE]
NotExecuted == [raised |-> FALSE, exc |-> "none", value |-> NoValue]

ToolHarnessIdle == tool_call = NoCall /\ exec_result = NotExecuted
ParseHarnessIdle == text = <<>> /\ parsed = NotParsed

AgentIdle ==
    /\ phase = "idle"
    /\ turn = 0
    /\ query = <<>>
    /\ context = <<>>
    /\ formatted_query = <<>>
    /\ iterations = 0
    /\ llm_calls = 0
    /\ llm_outputs = <<>>
    /\ tool_runs = 0
    /\ intermediate_steps = <<>>
    /\ pending = NoAction
    /\ outcome = "none"
    /\ result = NoResult
    /\ chat_memory = <<>>
    /\ last_address = <<>>

\* An exception leaves the executor: process_query's except clause answers, and
\* the memory is not written.
ReturnError(exc) ==
    /\ phase' = "returned"
    /\ outcome' = "error"
    /\ result' = process_query_guarded(exc)
    /\ UNCHANGED <<chat_memory, last_address>>

\* The executor returns an output (a final answer, or the stopped text): the
\* executor saves its input and output to its memory (memory=self.memory), then
\* process_query formats the output and saves the query and the response.
ReturnOutput(how, output) ==
    LET chat1 == save_messages(chat_memory, formatted_query, output)
        last1 == executor_saved_address(last_address, formatted_query)
        fr == _format_response(output) IN
    /\ phase' = "returned"
    /\ outcome' = how
    /\ IF response_is_text(fr)
       THEN /\ chat_memory' = save_messages(chat1, query, response_text(fr))
            /\ last_address' = save_address(last1, query)
            /\ result' = fr
       ELSE /\ chat_memory' = chat1
            /\ last_address' = last1
            /\ result' = process_query_guarded("ValidationError")

\* An executor that puts the newest step first.
AppendStep_newest_first(step) ==
    /\ intermediate_steps' = <<step>> \o intermediate_steps
    /\ iterations' = iterations + 1
    /\ IF should_continue(iterations + 1)
       THEN /\ phase' = "plan"
            /\ UNCHANGED <<outcome, result, chat_memory, last_address>>
       ELSE ReturnOutput("stopped", StoppedText)

\* The step is appended and the loop goes on, or stops at the iteration limit.
AppendStep(step) ==
    /\ intermediate_steps' = Append(intermediate_steps, step)
    /\ iterations' = iterations + 1
    /\ IF should_continue(iterations + 1)
       THEN /\ phase' = "plan"
            /\ UNCHANGED <<outcome, result, chat_memory, last_address>>
       ELSE ReturnOutput("stopped", StoppedText)

\* process_query(query, context) is called: the query is rewritten and the
\* executor starts with an empty scratchpad.
StartQuery(q, c) ==
    /\ phase \in {"idle", "returned"}
    /\ turn < MaxTurns
    /\ turn' = turn + 1
    /\ query' = q
    /\ context' = c
    /\ formatted_query' = _format_query_with_context(q, c, last_address)
    /\ iterations' = 0
    /\ llm_calls' = 0
    /\ llm_outputs' = <<>>
    /\ tool_runs' = 0
    /\ intermediate_steps' = <<>>
    /\ pending' = NoAction
    /\ outcome' = "none"
    /\ result' = NoResult
    /\ phase' = "plan"
    /\ UNCHANGED <<chat_memory, last_address, harness_vars>>

\* What the parser makes of each completion the model may give.
ParsedOutputs == [o \in ModelOutputs |-> parse(o)]

\* One planning step: the prompt is rendered, the model answers o, and the
\* parser reads it.
Plan(o) ==
    LET p == ParsedOutputs[o] IN
    /\ phase = "plan"
    /\ llm_calls' = llm_calls + 1
    /\ llm_outputs' = Append(llm_outputs, o)
    /\ UNCHANGED <<turn, query, context, formatted_query, tool_runs, harness_vars>>
    /\ IF p.kind = "finish"
       THEN /\ ReturnOutput("finish", p.output)
            /\ UNCHANGED <<iterations, intermediate_steps, pending>>
       ELSE IF p.kind = "action"
       THEN /\ pending' = p
            /\ phase' = "act"
            /\ UNCHANGED <<iterations, intermediate_steps, outcome, result,
                           chat_memory, last_address>>
       ELSE IF executor_recovers(ParseErrorRaised)
       THEN /\ AppendStep(Step(AgentAction(<<>>, NoInput, strip(o)), ParseErrorObservation))
            /\ UNCHANGED pending
       ELSE /\ ReturnError(ParseErrorRaised)
            /\ UNCHANGED <<iterations, intermediate_steps, pending>>

\* The model call itself fails (the provider is unreachable or answers an error).
PlanFails ==
    /\ phase = "plan"
    /\ llm_calls' = llm_calls + 1
    /\ ReturnError("APIError")
    /\ UNCHANGED <<turn, query, context, formatted_query, iterations, llm_outputs, tool_runs,
                   intermediate_steps, pending, harness_vars>>

\* One dispatch: the pending action's tool is looked up by name and run.
Act(up) ==
    /\ phase = "act"
    /\ pending' = NoAction
    /\ UNCHANGED <<turn, query, context, formatted_query, llm_calls, llm_outputs, harness_vars>>
    /\ IF lookup_tool(pending.tool) = <<>>
       THEN /\ AppendStep(Step(pending, InvalidToolObservation(pending.tool)))
            /\ UNCHANGED tool_runs
       ELSE LET tool == lookup_tool(pending.tool)
                r == tool_arun(tool, pending.tool_input, up) IN
            IF r.raised
            THEN /\ ReturnError(r.exc)
                 /\ tool_runs' = IF schema_rejects(tool, pending.tool_input)
                                 THEN tool_runs ELSE tool_runs + 1
                 /\ UNCHANGED <<iterations, intermediate_steps>>
            ELSE /\ AppendStep(Step(pending, ToolObservation(r.value)))
                 /\ tool_runs' = tool_runs + 1

Init == AgentIdle /\ ParseHarnessIdle /\ ToolHarnessIdle /\ ServicesIdle

PlanStep == (\E o \in ModelOutputs : Plan(o)) \/ PlanFails
ActStep == \E up \in LoopUpstream : Act(up)

Next ==
    \/ \E r \in Requests : StartQuery(r[1], r[2])
    \/ PlanStep
    \/ ActStep

Spec == Init /\ [][Next]_vars

(***************************************************************************)
(* The query rewriting on its own: _format_query_with_context is applied   *)
(* once to a query of at most MaxWords words (cue words, a word that holds *)
(* a cue word inside, the word "address", an address), with and without a  *)
(* stored address and a context map.                                       *)
(***************************************************************************)
MaxWords == 3

QueryAddress == first_address(QueryWithAddress)
StoredAddress == first_address(lower(QueryWithAddress))

QueryWords == {<<"i","t">>, <<"t","h","a","t">>, <<"t","h","i","s">>, <<"t","h","e">>,
               <<"w","i","t","h">>, WordAddress, <<"h","e","l","l","o">>, ContextAddress}

RECURSIVE Join(_)
Join(ws) ==
    IF ws = <<>> THEN <<>>
    ELSE IF Len(ws) = 1 THEN Head(ws)
    ELSE Head(ws) \o <<" ">> \o Join(Tail(ws))

WordQueries == {Join(ws) : ws \in UNION {[1..n -> QueryWords] : n \in 0..MaxWords}}

RewriteInit ==
    /\ phase = "idle"
    /\ turn = 0
    /\ query \in WordQueries
    /\ context \in {NoContext, SomeContext}
    /\ last_address \in {<<>>, StoredAddress}
    /\ formatted_query = <<>>
    /\ iterations = 0
    /\ llm_calls = 0
    /\ llm_outputs = <<>>
    /\ tool_runs = 0
    /\ intermediate_steps = <<>>
    /\ pending = NoAction
    /\ outcome = "none"
    /\ result = NoResult
    /\ chat_memory = <<>>
    /\ ParseHarnessIdle
    /\ ToolHarnessIdle
    /\ ServicesIdle

\* formatted_query = self._format_query_with_context(query, context or {})
Rewrite ==
    /\ phase = "idle"
    /\ phase' = "rewritten"
    /\ formatted_query' = _format_query_with_context(query, context, last_address)
    /\ UNCHANGED <<turn, query, context, iterations, llm_calls, llm_outputs, tool_runs,
                   intermediate_steps, pending, outcome, result, chat_memory,
                   last_address, harness_vars>>

RewriteNext == Rewrite

RewriteSpec == RewriteInit /\ [][RewriteNext]_vars

(***************************************************************************)
(* The reset on its own: clear_memory is called, up to MaxResets times, on *)
(* an agent whose memory is what up to MaxSaved successful turns left, and *)
(* the next query is rewritten.                                            *)
(***************************************************************************)
MaxSaved == 2
MaxResets == 2

\* A clear that drops the latest exchange only.
clear_last_pair(chat) ==
    IF Len(chat) <= 2 THEN <<>> ELSE SubSeq(chat, 1, Len(chat) - 2)

\* self.memory.clear(): the chat memory's clear() empties the message list.
clear_messages(chat) == <<>>

\* EnhancedConversationMemory defines no clear() of its own: entity_context is
\* not among the things the inherited clear() resets.
clear_entity_context(last) == last

\* The memory a successful turn leaves: the executor's save, then the save of
\* process_query.
TurnMemory(mem, q, c, out) ==
    LET fq == _format_query_with_context(q, c, mem.last) IN
    [chat |-> save_messages(save_messages(mem.chat, fq, out), q, out),
     last |-> save_address(executor_saved_address(mem.last, fq), q)]

NoMemory == [chat |-> <<>>, last |-> <<>>]

RECURSIVE MemoriesAfter(_)
MemoriesAfter(n) ==
    IF n = 0 THEN {NoMemory}
    ELSE LET before == MemoriesAfter(n - 1) IN
         before \cup {TurnMemory(mem, r[1], r[2], out) :
                         mem \in before, r \in Requests, out \in {AnswerText, StoppedText}}

ResetInit ==
    /\ phase = "idle"
    /\ turn = 0
    /\ query \in {QueryFollowUp, QueryGreeting}
    /\ context = NoContext
    /\ \E mem \in MemoriesAfter(MaxSaved) :
         chat_memory = mem.chat /\ last_address = mem.last
    /\ formatted_query = <<>>
    /\ iterations = 0
    /\ llm_calls = 0
    /\ llm_outputs = <<>>
    /\ tool_runs = 0
    /\ intermediate_steps = <<>>
    /\ pending = NoAction
    /\ outcome = "none"
    /\ result = NoResult
    /\ ParseHarnessIdle
    /\ ToolHarnessIdle
    /\ ServicesIdle

\* Web3Agent.clear_memory
Clear ==
    /\ phase = "idle"
    /\ resets < MaxResets
    /\ resets' = resets + 1
    /\ chat_memory' = clear_messages(chat_memory)
    /\ last_address' = clear_entity_context(last_address)
    /\ UNCHANGED <<phase, turn, query, context, formatted_query, iterations, llm_calls,
                   llm_outputs, tool_runs, intermediate_steps, pending, outcome, result,
                   text, parsed, tool_call, exec_result, now, last_request_time, http,
                   history, callers, client_vars>>

ResetNext == Clear \/ Rewrite

ResetSpec == ResetInit /\ [][ResetNext]_vars

(***************************************************************************)
(* The parser on its own: every text built from at most MaxPieces pieces   *)
(* is handed to invoke once.                                               *)
(***************************************************************************)
MaxPieces == 5

Pieces == {FinalAnswerMarker, ActionMarker, ActionInputMarker,
           <<NL>>, <<" ">>, <<"$">>, TokenToolName}

RECURSIVE Flatten(_)
Flatten(ps) == IF ps = <<>> THEN <<>> ELSE Head(ps) \o Flatten(Tail(ps))

PieceSeqs == UNION {[1..n -> Pieces] : n \in 0..MaxPieces}

ParseInit ==
    /\ \E ps \in PieceSeqs : text = Flatten(ps)
    /\ parsed = NotParsed
    /\ ToolHarnessIdle
    /\ AgentIdle
    /\ ServicesIdle

\* Web3AgentOutputParser.invoke / ainvoke on a text.
Invoke ==
    /\ parsed.kind = "none"
    /\ parsed' = parse(text)
    /\ UNCHANGED <<text, tool_call, exec_result, agent_vars, service_vars>>

ParseNext == Invoke

ParseSpec == ParseInit /\ [][ParseNext]_vars

(***************************************************************************)
(* main.py: the HTTP server.  Requests are served one after the other;     *)
(* each handler receives get_agent()'s agent, a new Web3Agent(), and the    *)
(* module's one api_handler with its rate limiters.                        *)
(***************************************************************************)
MaxRequests == 2
MaxClock == 5

Sessions == {"s1", "s2"}

\* get_agent: agent = Web3Agent(); the memory of a new agent is empty.
NewAgent ==
    /\ chat_memory' = <<>>
    /\ last_address' = <<>>
    /\ resets' = 0

NoRequestUnderWay == phase \in {"idle", "returned"} /\ (http.request = "none" \/ http.code # 0)

Received(kind, s, code, status) ==
    [request |-> kind, session |-> s, first |-> s \notin callers, n |-> http.n + 1,
     code |-> code, status |-> status]

\* POST /query refused: check_rate_limits raised HTTPException(429), which the
\* handler's except clause raises again with the same status code.
\* POST /query let through: agent.process_query(query, context) starts.
HttpQuery(s, q, c) ==
    LET chk == check_rate_limits(last_request_time, now) IN
    /\ NoRequestUnderWay
    /\ http.n < MaxRequests
    /\ NewAgent
    /\ callers' = callers \cup {s}
    /\ last_request_time' = chk.lrt
    /\ query' = q
    /\ context' = c
    /\ iterations' = 0
    /\ llm_calls' = 0
    /\ llm_outputs' = <<>>
    /\ tool_runs' = 0
    /\ intermediate_steps' = <<>>
    /\ pending' = NoAction
    /\ outcome' = "none"
    /\ result' = NoResult
    /\ IF chk.accepted
       THEN /\ turn' = 1
            /\ formatted_query' = _format_query_with_context(q, c, <<>>)
            /\ phase' = "plan"
            /\ http' = Received("query", s, 0, "none")
       ELSE /\ turn' = 0
            /\ formatted_query' = <<>>
            /\ phase' = "idle"
            /\ http' = Received("query", s, 429, "error")
    /\ UNCHANGED <<text, parsed, tool_call, exec_result, now, history, client_vars>>

\* Lines 155-161: whatever dict the agent returned is wrapped in
\* {"status": "success", "response": ..., "execution_time": ...}.
query_response_status(res) == "success"

\* agent.process_query has returned: the handler answers.
HttpRespond ==
    /\ phase = "returned"
    /\ http.request = "query"
    /\ http.code = 0
    /\ http' = [http EXCEPT !.code = 200, !.status = query_response_status(result)]
    /\ UNCHANGED <<agent_vars, text, parsed, tool_call, exec_result, resets, now,
                   last_request_time, history, callers, client_vars>>

\* APIHandler.format_response: a dict is returned as it is, a list is wrapped
\* in {"items": ...}.
format_response_shape(shape) == IF shape = "dict" THEN "dict" ELSE "dict_of_items"

\* GET /history has response_model=List[...]: the handler's return value is
\* validated against it when the response is built.
history_response_code == IF format_response_shape("list") = "list" THEN 200 ELSE 500

\* GET /history: the history of the handler's agent.
HttpHistory(s) ==
    /\ NoRequestUnderWay
    /\ http.n < MaxRequests
    /\ NewAgent
    /\ history' = get_conversation_history(chat_memory')
    /\ http' = Received("history", s, history_response_code,
                        IF history_response_code = 200 THEN "success" ELSE "error")
    /\ UNCHANGED <<phase, turn, query, context, formatted_query, iterations, llm_calls,
                   llm_outputs, tool_runs, intermediate_steps, pending, outcome, result,
                   text, parsed, tool_call, exec_result, now, last_request_time, callers,
                   client_vars>>

\* POST /clear: clear_memory on the handler's agent.
HttpClear(s) ==
    /\ NoRequestUnderWay
    /\ http.n < MaxRequests
    /\ chat_memory' = clear_messages(<<>>)
    /\ last_address' = clear_entity_context(<<>>)
    /\ resets' = 1
    /\ http' = Received("clear", s, 200, "success")
    /\ UNCHANGED <<phase, turn, query, context, formatted_query, iterations, llm_calls,
                   llm_outputs, tool_runs, intermediate_steps, pending, outcome, result,
                   text, parsed, tool_call, exec_result, now, last_request_time, history,
                   callers, client_vars>>

\* Time passes between two requests.
Tick ==
    /\ NoRequestUnderWay
    /\ now < MaxClock
    /\ now' = now + 1
    /\ UNCHANGED <<agent_vars, text, parsed, tool_call, exec_result, resets,
                   last_request_time, http, history, callers, client_vars>>

ServerNext ==
    \/ \E s \in Sessions, r \in Requests : HttpQuery(s, r[1], r[2])
    \/ PlanStep
    \/ ActStep
    \/ HttpRespond
    \/ \E s \in Sessions : HttpHistory(s)
    \/ \E s \in Sessions : HttpClear(s)
    \/ Tick

ServerSpec == Init /\ [][ServerNext]_vars

(***************************************************************************)
(* utils/api.py: concurrent callers of check_rate_limit.  Each caller      *)
(* checks the limiter of an API under that API's name, as make_request and *)
(* check_rate_limits do.                                                   *)
(***************************************************************************)
MaxChecks == 2

\* The APIs whose limiters the callers check.
CheckedApis == {"default", "opensea"}

\* await rate_limiter.check_rate_limit(api_name) is called.
CallCheck(c, k) ==
    /\ checks[c].pc \in {"idle", "accepted", "rejected"}
    /\ checks[c].n < MaxChecks
    /\ checks' = [checks EXCEPT ![c] = [pc |-> "waiting", key |-> k, n |-> @.n + 1]]
    /\ UNCHANGED <<agent_vars, text, parsed, tool_call, exec_result, resets, now,
                   last_request_time, http, history, callers, lock, accepted, req, retry,
                   runs, cache, lookup>>

\* async with self.lock: the caller gets the lock when nobody holds it.
Acquire(c) ==
    /\ checks[c].pc = "waiting"
    /\ lock = "free"
    /\ lock' = c
    /\ checks' = [checks EXCEPT ![c].pc = "holding"]
    /\ UNCHANGED <<agent_vars, text, parsed, tool_call, exec_result, resets, now,
                   last_request_time, http, history, callers, accepted, req, retry,
                   runs, cache, lookup>>

\* Lines 18-26 under the lock: the time is read, the check is refused (the
\* exception leaves the with block) or recorded, and the lock is released.
CheckBody(c) ==
    LET k == checks[c].key
        r == check_rate_limit(last_request_time, k, requests_per_second(k), now) IN
    /\ checks[c].pc = "holding"
    /\ last_request_time' = r.lrt
    /\ checks' = [checks EXCEPT ![c].pc = IF r.accepted THEN "accepted" ELSE "rejected"]
    /\ accepted' = IF r.accepted THEN Append(accepted, [key |-> k, at |-> now]) ELSE accepted
    /\ lock' = "free"
    /\ UNCHANGED <<agent_vars, text, parsed, tool_call, exec_result, resets, now, http,
                   history, callers, req, retry,
                   runs, cache, lookup>>

\* Time passes.
Elapse ==
    /\ now < MaxClock
    /\ now' = now + 1
    /\ UNCHANGED <<agent_vars, text, parsed, tool_call, exec_result, resets,
                   last_request_time, http, history, callers, client_vars>>

RateNext ==
    \/ \E c \in CheckCallers, k \in CheckedApis : CallCheck(c, k)
    \/ \E c \in CheckCallers : Acquire(c)
    \/ \E c \in CheckCallers : CheckBody(c)
    \/ Elapse

RateSpec == Init /\ [][RateNext]_vars

(***************************************************************************)
(* utils/api.py: APIHandler.make_request, one attempt at a time.           *)
(***************************************************************************)
MaxRetryCount == 3
MaxRetryDelay == 2
MaxCalls == 2

RequestedApis == {"opensea", "defillama"}

\* What one attempt meets: a 2xx/3xx answer, another status, or an exception
\* of the transport.
AttemptOutcomes == {"ok", "http_error", "TimeoutError", "ClientError", "Exception"}
TransportFailures == {"TimeoutError", "ClientError", "Exception"}

\* A wait of retry_delay after every failed attempt.
retry_wait_constant(retry_delay, attempt) == retry_delay

\* asyncio.sleep(retry_delay * (attempt + 1)), attempt counted from 0.
retry_wait(retry_delay, attempt) == retry_delay * (attempt + 1)

\* The except clauses: the last attempt returns the failure dict.
is_last_attempt(attempt, retry_count) == attempt = retry_count - 1

\* make_request(api_name, url, retry_count=rc, retry_delay=rd) is called: the
\* rate limit of api_name is checked (429 is raised to the caller), and the
\* loop over range(retry_count) starts; an empty range falls through to the
\* end of the function.
MakeRequest(api, rc, rd) ==
    LET chk == check_rate_limit(last_request_time, api, requests_per_second(api), now)
        started == [NoRequest EXCEPT !.api_name = api, !.retry_count = rc,
                                     !.retry_delay = rd, !.n = req.n + 1] IN
    /\ req.pc \in {"idle", "returned", "raised"}
    /\ req.n < MaxCalls
    /\ last_request_time' = chk.lrt
    /\ req' = IF ~chk.accepted THEN [started EXCEPT !.pc = "raised"]
              ELSE IF rc <= 0 THEN [started EXCEPT !.pc = "returned", !.ret = ReturnedNone]
              ELSE [started EXCEPT !.pc = "attempt"]
    /\ UNCHANGED <<agent_vars, text, parsed, tool_call, exec_result, resets, now, http,
                   history, callers, checks, lock, accepted, retry,
                   runs, cache, lookup>>

\* A loop that treats a refused status like an exception of the transport.
Attempt_retrying_on_status(o) ==
    /\ req.pc = "attempt"
    /\ req' = IF o = "ok"
              THEN [req EXCEPT !.pc = "returned", !.attempts = @ + 1, !.last = o,
                               !.ret = SuccessDict]
              ELSE IF is_last_attempt(req.attempt, req.retry_count)
              THEN [req EXCEPT !.pc = "returned", !.attempts = @ + 1, !.last = o,
                               !.failures = @ + 1,
                               !.ret = IF o = "http_error" THEN HttpErrorDict ELSE FailureDict]
              ELSE [req EXCEPT !.pc = "sleep", !.attempts = @ + 1, !.last = o,
                               !.failures = @ + 1]
    /\ UNCHANGED <<agent_vars, text, parsed, tool_call, exec_result, resets, now,
                   last_request_time, http, history, callers, checks, lock, accepted, retry,
                   runs, cache, lookup>>

\* One pass of the loop body up to its return or its sleep.
Attempt(o) ==
    /\ req.pc = "attempt"
    /\ req' = IF o = "ok"
              THEN [req EXCEPT !.pc = "returned", !.attempts = @ + 1, !.last = o,
                               !.ret = SuccessDict]
              ELSE IF o = "http_error"
              THEN [req EXCEPT !.pc = "returned", !.attempts = @ + 1, !.last = o,
                               !.ret = HttpErrorDict]
              ELSE IF is_last_attempt(req.attempt, req.retry_count)
              THEN [req EXCEPT !.pc = "returned", !.attempts = @ + 1, !.last = o,
                               !.failures = @ + 1, !.ret = FailureDict]
              ELSE [req EXCEPT !.pc = "sleep", !.attempts = @ + 1, !.last = o,
                               !.failures = @ + 1]
    /\ UNCHANGED <<agent_vars, text, parsed, tool_call, exec_result, resets, now,
                   last_request_time, http, history, callers, checks, lock, accepted, retry,
                   runs, cache, lookup>>

\* Lines 232-234: the wait before the next attempt.
Sleep ==
    /\ req.pc = "sleep"
    /\ req' = [req EXCEPT !.pc = "attempt", !.attempt = @ + 1,
                          !.waits = Append(@, retry_wait(req.retry_delay, req.attempt))]
    /\ UNCHANGED <<agent_vars, text, parsed, tool_call, exec_result, resets, now,
                   last_request_time, http, history, callers, checks, lock, accepted, retry,
                   runs, cache, lookup>>

RequestNext ==
    \/ \E api \in RequestedApis, rc \in 0..MaxRetryCount, rd \in 1..MaxRetryDelay :
            MakeRequest(api, rc, rd)
    \/ \E o \in AttemptOutcomes : Attempt(o)
    \/ Sleep
    \/ Elapse

RequestSpec == Init /\ [][RequestNext]_vars

(***************************************************************************)
(* tools/base.py: one call of a function wrapped by @retry_on_failure().   *)
(* outcomes[i] is what the i-th attempt of the wrapped function would meet. *)
(***************************************************************************)
WrappedOutcomes == {"ok", "ToolException", "ClientError", "TimeoutError"}

AttemptResult(o) == IF o = "ok" THEN Returned(NoValue) ELSE Raised(o)

\* wrapper(*args, **kwargs) is called.
CallWrapped(outs) ==
    /\ retry.pc = "idle"
    /\ retry' = [NoRetry EXCEPT !.pc = "attempt", !.outcomes = outs]
    /\ UNCHANGED <<agent_vars, text, parsed, tool_call, exec_result, resets, now,
                   last_request_time, http, history, callers, checks, lock, accepted, req,
                   runs, cache, lookup>>

\* The first pass of the wrapper's loop, to the point where the wrapper
\* returns or an exception leaves it.
WrappedAttempt ==
    /\ retry.pc = "attempt"
    /\ retry' = [retry EXCEPT !.pc = "done", !.attempts = @ + 1,
                              !.ret = retry_on_failure(max_attempts,
                                                       AttemptResult(retry.outcomes[1]))]
    /\ UNCHANGED <<agent_vars, text, parsed, tool_call, exec_result, resets, now,
                   last_request_time, http, history, callers, checks, lock, accepted, req,
                   runs, cache, lookup>>

RetryNext ==
    \/ \E outs \in [1..max_attempts -> WrappedOutcomes] : CallWrapped(outs)
    \/ WrappedAttempt

RetrySpec == Init /\ [][RetryNext]_vars

(***************************************************************************)
(* The parser on tool requests: the text is an Action line naming a tool,  *)
(* then "Action Input:" followed by a payload of at most MaxPayload        *)
(* pieces (braces, an object member, a comma, a newline, a space).         *)
(***************************************************************************)
MaxPayload == 5

ObjectMember == <<"\"","a","\"",":","1">>
PayloadPieces == {<<"{">>, <<"}">>, ObjectMember, <<",">>, <<NL>>, <<" ">>}

ActionPrefix == ActionMarker \o <<" ">> \o TokenToolName \o <<NL>> \o ActionInputMarker

Payloads == {Flatten(ps) : ps \in UNION {[1..n -> PayloadPieces] : n \in 0..MaxPayload}}

PayloadInit ==
    /\ \E pl \in Payloads : text = ActionPrefix \o pl
    /\ parsed = NotParsed
    /\ ToolHarnessIdle
    /\ AgentIdle
    /\ ServicesIdle

PayloadSpec == PayloadInit /\ [][ParseNext]_vars

(***************************************************************************)
(* The end of process_query on the executor's outputs: the output is any   *)
(* text of at most MaxAnswerPieces pieces, plain or shaped like an object. *)
(***************************************************************************)
MaxAnswerPieces == 3

MemberStatusSuccess == <<"\"">> \o KeyStatus \o <<"\"", ":">> \o QuotedSuccess
MemberStatusOther == <<"\"">> \o KeyStatus \o <<"\"", ":", "\"", "d", "o", "n", "e", "\"">>
MemberResponse == <<"\"">> \o KeyResponse \o <<"\"", ":", "\"", "o", "k", "\"">>
MemberResponseNumber == <<"\"">> \o KeyResponse \o <<"\"", ":", "1">>
AnswerPieces == {<<"{">>, <<"}">>, <<",">>, <<" ">>, AnswerText, ObjectMember,
                 MemberStatusSuccess, MemberStatusOther, MemberResponse,
                 MemberResponseNumber}

Answers == {Flatten(ps) : ps \in UNION {[1..n -> AnswerPieces] : n \in 0..MaxAnswerPieces}}

\* process_query is at "response = await self.agent_executor.ainvoke(input_data)".
AnswerInit ==
    /\ phase = "plan"
    /\ turn = 1
    /\ query \in {QueryGreeting, QueryWithAddress}
    /\ context = NoContext
    /\ formatted_query = query
    /\ iterations = 0
    /\ llm_calls = 0
    /\ llm_outputs = <<>>
    /\ tool_runs = 0
    /\ intermediate_steps = <<>>
    /\ pending = NoAction
    /\ outcome = "none"
    /\ result = NoResult
    /\ chat_memory = <<>>
    /\ last_address = <<>>
    /\ ParseHarnessIdle
    /\ ToolHarnessIdle
    /\ ServicesIdle

\* The executor returns {"output": a}: the rest of process_query runs.
ExecutorReturns(a) ==
    /\ phase = "plan"
    /\ ReturnOutput("finish", a)
    /\ UNCHANGED <<turn, query, context, formatted_query, iterations, llm_calls,
                   llm_outputs, tool_runs, intermediate_steps, pending, harness_vars>>

AnswerNext == \E a \in Answers : ExecutorReturns(a)

AnswerSpec == AnswerInit /\ [][AnswerNext]_vars

(***************************************************************************)
(* One dispatch for each capability the prompts name: the run has made its *)
(* first model call, whose completion asked for the capability's tool.     *)
(***************************************************************************)
DeFiToolName == <<"D","e","F","i","T","o","o","l">>

\* The keys of prompts.TOOL_DESCRIPTIONS.
NamedCapabilities ==
    {WalletToolName, TokenToolName, NFTToolName, DeFiToolName, KnowledgeToolName}

Quoted(v) == <<"\"">> \o v \o <<"\"">>
ObjectOf(key, v) == <<"{">> \o Quoted(key) \o <<":">> \o Quoted(v) \o <<"}">>

ArgumentValues == {ContextAddress, <<"B","T","C">>, <<"a","a","v","e">>}
ArgumentKeys ==
    {KeyAddress, KeyContractAddress, KeyQuery, KeySymbol, <<"a","c","t","i","o","n">>}

\* The action inputs the completion may carry: a bare value, or an object of
\* one member.
CapabilityInputs ==
    ArgumentValues \cup {<<"{", "}">>}
        \cup {ObjectOf(k, v) : k \in ArgumentKeys, v \in ArgumentValues}

CapabilityRequest(name, input) ==
    ActionMarker \o <<" ">> \o name \o <<NL>> \o ActionInputMarker \o <<" ">> \o input

DispatchInit ==
    /\ \E name \in NamedCapabilities, input \in CapabilityInputs :
          /\ llm_outputs = <<CapabilityRequest(name, input)>>
          /\ pending = parse(CapabilityRequest(name, input))
    /\ phase = "act"
    /\ turn = 1
    /\ query = QueryGreeting
    /\ context = NoContext
    /\ formatted_query = query
    /\ iterations = 0
    /\ llm_calls = 1
    /\ tool_runs = 0
    /\ intermediate_steps = <<>>
    /\ outcome = "none"
    /\ result = NoResult
    /\ chat_memory = <<>>
    /\ last_address = <<>>
    /\ ParseHarnessIdle
    /\ ToolHarnessIdle
    /\ ServicesIdle

DispatchNext == ActStep

DispatchSpec == DispatchInit /\ [][DispatchNext]_vars

(***************************************************************************)
(* Concurrent process_query calls and resets on one agent instance.  The   *)
(* calls are coroutines of one event loop: what runs between two awaits is *)
(* one step.                                                               *)
(***************************************************************************)
MaxRunTurns == 1

RunQueries == {QueryWithAddress, QueryFollowUp}
RunOutputs == {AnswerText, StoppedText}

run_frame ==
    <<phase, turn, query, context, formatted_query, iterations, llm_calls, llm_outputs,
      tool_runs, intermediate_steps, pending, outcome, result, text, parsed, tool_call,
      exec_result, resets, now, last_request_time, http, history, callers, checks, lock,
      accepted, req, retry, cache, lookup>>

\* process_query(q) up to "await self.agent_executor.ainvoke(input_data)".
RunStarts(r, q) ==
    /\ runs[r].pc \in {"idle", "done"}
    /\ runs[r].n < MaxRunTurns
    /\ runs' = [runs EXCEPT ![r] =
                  [pc |-> "executing", query |-> q,
                   formatted_query |-> _format_query_with_context(q, NoContext, last_address),
                   output |-> <<>>, turns |-> @.turns, n |-> @.n + 1]]
    /\ UNCHANGED <<chat_memory, last_address, run_frame>>

\* The executor ends with the output out: it saves its input and output to the
\* memory and ainvoke returns.
RunExecutorReturns(r, out) ==
    /\ runs[r].pc = "executing"
    /\ chat_memory' = save_messages(chat_memory, runs[r].formatted_query, out)
    /\ last_address' = executor_saved_address(last_address, runs[r].formatted_query)
    /\ runs' = [runs EXCEPT ![r].pc = "returning", ![r].output = out,
                            ![r].turns = @ \cup {[query |-> runs[r].query,
                                                  formatted_query |-> runs[r].formatted_query,
                                                  output |-> out]}]
    /\ UNCHANGED run_frame

\* An exception leaves the executor: process_query answers the error envelope.
RunExecutorFails(r) ==
    /\ runs[r].pc = "executing"
    /\ runs' = [runs EXCEPT ![r].pc = "done"]
    /\ UNCHANGED <<chat_memory, last_address, run_frame>>

\* Lines 270-276: the output is formatted and the query and the response are
\* saved.
RunSaves(r) ==
    /\ runs[r].pc = "returning"
    /\ chat_memory' = save_messages(chat_memory, runs[r].query,
                                    response_text(_format_response(runs[r].output)))
    /\ last_address' = save_address(last_address, runs[r].query)
    /\ runs' = [runs EXCEPT ![r].pc = "done"]
    /\ UNCHANGED run_frame

\* clear_memory, between any two steps of the runs.
ClearWhileRunning ==
    /\ resets < MaxResets
    /\ resets' = resets + 1
    /\ chat_memory' = clear_messages(chat_memory)
    /\ last_address' = clear_entity_context(last_address)
    /\ UNCHANGED <<phase, turn, query, context, formatted_query, iterations, llm_calls,
                   llm_outputs, tool_runs, intermediate_steps, pending, outcome, result,
                   text, parsed, tool_call, exec_result, now, last_request_time, http,
                   history, callers, client_vars>>

ConcurrentNext ==
    \/ \E r \in ConcurrentRuns, q \in RunQueries : RunStarts(r, q)
    \/ \E r \in ConcurrentRuns, out \in RunOutputs : RunExecutorReturns(r, out)
    \/ \E r \in ConcurrentRuns : RunExecutorFails(r)
    \/ \E r \in ConcurrentRuns : RunSaves(r)
    \/ ClearWhileRunning

ConcurrentSpec == Init /\ [][ConcurrentNext]_vars

(***************************************************************************)
(* tools/nft.py, tools/defi.py: the cached lookups get_collection_stats    *)
(* and get_protocol_data of one NFTTool and one DeFiTool.  The clock moves *)
(* in steps of SecondsPerStep seconds.                                     *)
(***************************************************************************)
MaxLookups == 3
SecondsPerStep == 100
cache_ttl == 300

cache_frame ==
    <<agent_vars, text, parsed, tool_call, exec_result, resets, now, last_request_time,
      http, history, callers, checks, lock, accepted, req, retry, runs>>

IsProtocolKey(k) == k = "protocol_a"

\* An entry that never expires.
cache_is_fresh_for_ever(entry, t) == entry.known

\* cache_key in self.cache and
\* datetime.now() - cached_data["timestamp"] < timedelta(seconds=self.cache_ttl)
cache_is_fresh(entry, t) == entry.known /\ (t - entry.at) * SecondsPerStep < cache_ttl

\* The lookup is called: a fresh entry is returned at once, else the lookup
\* goes on to its upstream request.
Lookup(k) ==
    /\ lookup.pc \in {"idle", "done"}
    /\ lookup.n < MaxLookups
    /\ lookup' = IF cache_is_fresh(cache[k], now)
                 THEN [lookup EXCEPT !.pc = "done", !.key = k, !.ret = "cached",
                                     !.data = cache[k].data, !.last = "none", !.n = @ + 1]
                 ELSE [lookup EXCEPT !.pc = "fetching", !.key = k, !.ret = "none",
                                     !.data = 0, !.last = "none", !.n = @ + 1]
    /\ UNCHANGED <<cache, cache_frame>>

\* make_request for the stats or the protocol has returned: a failure result
\* raises ToolException; a success is stored (stats) or followed by the chart
\* request (protocol).
Fetch(o) ==
    /\ lookup.pc = "fetching"
    /\ IF o = "failed"
       THEN /\ lookup' = [lookup EXCEPT !.pc = "done", !.ret = "ToolException", !.last = o,
                                        !.requests = @ + 1]
            /\ UNCHANGED cache
       ELSE IF IsProtocolKey(lookup.key)
       THEN /\ lookup' = [lookup EXCEPT !.pc = "chart", !.last = o, !.requests = @ + 1]
            /\ UNCHANGED cache
       ELSE /\ lookup' = [lookup EXCEPT !.pc = "done", !.ret = "fetched", !.last = o,
                                        !.data = lookup.requests + 1, !.requests = @ + 1]
            /\ cache' = [cache EXCEPT ![lookup.key] =
                            [known |-> TRUE, at |-> now, data |-> lookup.requests + 1,
                             history |-> FALSE]]
    /\ UNCHANGED cache_frame

\* get_protocol_data's second make_request, for the chart: the limiter of
\* "defillama" may refuse it (HTTPException leaves the lookup); otherwise the
\* result is built, with the chart or with [] when the request failed, and
\* stored.
FetchChart(o) ==
    /\ lookup.pc = "chart"
    /\ IF o = "rate_limited"
       THEN /\ lookup' = [lookup EXCEPT !.pc = "done", !.ret = "HTTPException", !.last = o]
            /\ UNCHANGED cache
       ELSE /\ lookup' = [lookup EXCEPT !.pc = "done", !.ret = "fetched", !.last = o,
                                        !.data = lookup.requests + 1, !.requests = @ + 1]
            /\ cache' = [cache EXCEPT ![lookup.key] =
                            [known |-> TRUE, at |-> now, data |-> lookup.requests + 1,
                             history |-> o = "ok"]]
    /\ UNCHANGED cache_frame

CacheNext ==
    \/ \E k \in CacheKeys : Lookup(k)
    \/ \E o \in {"ok", "failed"} : Fetch(o)
    \/ \E o \in {"ok", "failed", "rate_limited"} : FetchChart(o)
    \/ Elapse

CacheSpec == Init /\ [][CacheNext]_vars

(***************************************************************************)
(* agent/core.py, _create_agent_executor: the prompt of a planning step.   *)
(* A message is a role, a text and, for an observation, the observation.   *)
(* The wording of the instructions is abridged to a heading.               *)
(***************************************************************************)
NoObservation == [kind |-> "none", status |-> "", tool |-> <<>>, error |-> ""]
PromptMessage(m) == [role |-> m.role, content |-> m.content, observation |-> NoObservation]

\* self.tools, in the order of tool_classes.
ToolOrder == <<WalletToolName, TokenToolName, NFTToolName, KnowledgeToolName>>

\* "\n".join(f"- {tool.name}: {tool.description}" for tool in self.tools)
tool_descriptions ==
    Flatten([i \in 1..Len(ToolOrder) |->
                (IF i = 1 THEN <<>> ELSE <<NL>>) \o <<"-", " ">> \o ToolOrder[i] \o <<":">>])

SystemHeading == <<"t","o","o","l","s",":",NL>>
SystemMessage ==
    [role |-> "system", content |-> SystemHeading \o tool_descriptions,
     observation |-> NoObservation]

ObservationPrefix == <<"O","b","s","e","r","v","a","t","i","o","n",":"," ">>

\* AIMessage(content=action.log), HumanMessage(content=f"Observation: {observation}")
StepMessages(step) ==
    <<[role |-> "ai", content |-> step.log, observation |-> NoObservation],
      [role |-> "human", content |-> ObservationPrefix, observation |-> step.observation]>>

\* A rendering that puts the newest step first.
format_intermediate_steps_newest_first(steps) ==
    Flatten([i \in 1..Len(steps) |-> StepMessages(steps[Len(steps) + 1 - i])])

format_intermediate_steps(steps) ==
    Flatten([i \in 1..Len(steps) |-> StepMessages(steps[i])])

\* ChatPromptTemplate.from_messages([("system", ...),
\* MessagesPlaceholder("chat_history"), ("human", "{input}"),
\* MessagesPlaceholder("agent_scratchpad")])
render_prompt(chat, input, steps) ==
    <<SystemMessage>>
        \o [i \in 1..Len(chat) |-> PromptMessage(chat[i])]
        \o <<PromptMessage(HumanMessage(input))>>
        \o format_intermediate_steps(steps)

\* The prompt the planning step at hand renders.
rendered_prompt == render_prompt(chat_memory, formatted_query, intermediate_steps)

(***************************************************************************)
(* The tools on their own: execute is called once, directly, with every    *)
(* combination of arguments and upstream outcomes.                         *)
(***************************************************************************)
ToolCalls ==
    [tool : RegisteredTools, primary : PrimaryShapes, extra : BOOLEAN,
     upstream : UpstreamOutcomes, vector_store : BOOLEAN]

ToolInit ==
    /\ tool_call \in ToolCalls
    /\ exec_result = NotExecuted
    /\ ParseHarnessIdle
    /\ AgentIdle
    /\ ServicesIdle

\* await tool.execute(...)
Execute ==
    /\ exec_result.exc = "none"
    /\ exec_result' = execute(tool_call)
    /\ UNCHANGED <<text, parsed, tool_call, agent_vars, service_vars>>

ToolNext == Execute

ToolSpec == ToolInit /\ [][ToolNext]_vars

(***************************************************************************)
(* Properties of the parser (checked under ParseSpec)                      *)
(***************************************************************************)
Invoked == parsed.kind # "none"

\* The text that follows the last occurrence of marker m in s.
AfterLast(s, m) == SubSeq(s, Max(Occurrences(s, m)) + Len(m), Len(s))

\* C7: for every text that contains "Final Answer:", parse returns a final answer
\* whose text is the trimmed substring after the LAST occurrence of the marker.
C7_FinalAnswerLastOccurrence ==
    (Invoked /\ Contains(text, FinalAnswerMarker)) =>
        /\ parsed.kind = "finish"
        /\ parsed.output = strip(AfterLast(text, FinalAnswerMarker))

\* A text with two markers, a non-empty answer after the last one and another
\* text between the two.
C7_Witness ==
    /\ parsed.kind = "finish"
    /\ Cardinality(Occurrences(text, FinalAnswerMarker)) >= 2
    /\ parsed.output # <<>>
    /\ parsed.output # strip(split_second(strip(text), FinalAnswerMarker))

\* C8: parse returns a final answer if and only if the text contains the literal
\* marker "Final Answer:"; the marker wins over the action markers wherever they
\* are, and a text without it is never a final answer.
C8_FinalAnswerIffMarker ==
    Invoked => (parsed.kind = "finish" <=> Contains(text, FinalAnswerMarker))

\* A final answer returned for a text that also holds a complete action pair
\* ahead of the marker.
C8_Witness ==
    /\ parsed.kind = "finish"
    /\ re_search_action(strip(text)).matched
    /\ re_search_action_input(strip(text)).matched
    /\ Min(Occurrences(text, ActionMarker)) < Min(Occurrences(text, FinalAnswerMarker))

\* The tool name the grammar describes: the text after the first "Action:" up to
\* the next newline or the end of the text, trimmed.
DescribedToolName(s) ==
    LET j == Min(Occurrences(s, ActionMarker)) + Len(ActionMarker) IN
    strip(SubSeq(s, j, input_terminator(s, j) - 1))

\* C9: for every text with an "Action: T" marker and an "Action Input: I" marker
\* and no "Final Answer:" marker, parse returns a tool invocation whose tool name
\* is T trimmed, whatever the order of the markers and the characters of T.
C9_ToolNameExtracted ==
    (/\ Invoked
     /\ ~Contains(text, FinalAnswerMarker)
     /\ Contains(text, ActionMarker)
     /\ Contains(text, ActionInputMarker)) =>
        /\ parsed.kind = "action"
        /\ parsed.tool = DescribedToolName(text)

\* C10: for every text without "Final Answer:" in which "Action:" or
\* "Action Input:" is missing, parse signals a parse failure and returns no outcome.
C10_MissingMarkerIsParseFailure ==
    (/\ Invoked
     /\ ~Contains(text, FinalAnswerMarker)
     /\ (~Contains(text, ActionMarker) \/ ~Contains(text, ActionInputMarker))) =>
        parsed.kind = "raise"

\* A parse failure for a text whose "Action:" line is complete and whose
\* "Action Input:" marker is missing.
C10_Witness ==
    /\ parsed.kind = "raise"
    /\ re_search_action(strip(text)).matched
    /\ ~Contains(text, ActionInputMarker)

(***************************************************************************)
(* Properties of the parser on tool requests (checked under PayloadSpec)   *)
(***************************************************************************)
\* The payload: what follows "Action Input:" up to the end of the content.
PayloadOf(s) == SubSeq(s, Len(ActionPrefix) + 1, Len(s))

\* C11: the tool-input payload parse extracts is all the text that follows
\* "Action Input:" up to the end of the content (trimmed), later lines included:
\* an object written over several lines is captured whole.
C11_PayloadCapturedWhole ==
    Invoked =>
        /\ parsed.kind = "action"
        /\ parsed.tool_input.raw = strip(PayloadOf(text))

\* The text parse extracted as the tool input, and whether it has the shape of
\* an object.
ExtractedInput(s) == strip(re_search_action_input(strip(s)).group1)
LooksLikeObject(a) == startswith(a, <<"{">>) /\ endswith(a, <<"}">>)

\* C12: when the extracted tool-input text begins with "{", ends with "}" and
\* decodes, the tool input is the decoded structure; when it does not decode or
\* has not that shape, the tool input is the raw string; in both cases parse
\* returns a tool invocation, never a parse failure.
C12_DecodeOrRawString ==
    Invoked =>
        LET a == ExtractedInput(text) IN
        /\ parsed.kind = "action"
        /\ parsed.tool = TokenToolName
        /\ IF LooksLikeObject(a) /\ json_loads(a).ok
           THEN /\ parsed.tool_input.is_dict
                /\ parsed.tool_input.members = json_loads(a).members
           ELSE /\ ~parsed.tool_input.is_dict
                /\ parsed.tool_input.raw = a

\* A text in braces that does not decode came back as a raw string.
C12_Witness ==
    /\ Invoked
    /\ LooksLikeObject(ExtractedInput(text))
    /\ ~json_loads(ExtractedInput(text)).ok
    /\ parsed.kind = "action"
    /\ ~parsed.tool_input.is_dict
    /\ parsed.tool_input.raw = ExtractedInput(text)

(***************************************************************************)
(* Properties of the tools (checked under ToolSpec)                        *)
(***************************************************************************)
Executed == exec_result.exc # "none"

\* C6: for every registered tool, every input (missing, malformed, valid) and
\* every upstream outcome, execute returns an envelope whose status is success or
\* error and whose tool field is the tool's name; it never raises to its caller.
C6_ExecuteNeverRaises ==
    Executed =>
        /\ ~exec_result.raised
        /\ exec_result.value.status \in {"success", "error"}
        /\ exec_result.value.tool = tool_call.tool

(***************************************************************************)
(* Properties of a process_query run (checked under Spec)                  *)
(***************************************************************************)
Running == phase \in {"plan", "act"}
Returned_ == phase = "returned"

\* What is left of a run: two steps (plan, dispatch) for each iteration the
\* executor may still make; 0 once the run has returned.
RunMeasure ==
    IF phase = "plan" THEN 2 * (max_iterations - iterations) + 2
    ELSE IF phase = "act" THEN 2 * (max_iterations - iterations) + 1
    ELSE 0

\* C1: for every behaviour of the model and of the tools, one process_query run
\* makes at most 5 render-prompt/invoke-model cycles and always reaches a terminal
\* outcome (a final answer or a failure); it never loops forever.  Termination is
\* stated through a variant: a run that has not returned has a positive
\* RunMeasure, every step of a run lowers it, and it is never negative, so a run
\* makes at most 2 * max_iterations + 2 steps before it returns.
C1_RunIsBoundedAndTerminates ==
    /\ [](llm_calls <= max_iterations)
    /\ [](Returned_ => outcome \in {"finish", "stopped", "error"})
    /\ [](Running => RunMeasure > 0)
    /\ [][Running => (RunMeasure' < RunMeasure /\ RunMeasure' >= 0)]_vars

\* A run that used all 5 cycles and was stopped by the iteration limit.
C1_Witness ==
    /\ Returned_
    /\ outcome = "stopped"
    /\ llm_calls = max_iterations

\* Every completion of the run so far is unparsable.
AllUnparsable ==
    /\ llm_outputs # <<>>
    /\ \A i \in 1..Len(llm_outputs) : parse(llm_outputs[i]).kind = "raise"

\* C2: given a model whose every output is unparsable, each parse failure is
\* folded back into the scratchpad as an observation and the model is invoked
\* again, and the run ends in the failed outcome after exactly 5 cycles.
C2_UnparsableRunFailsAfterFiveCycles ==
    (Returned_ /\ AllUnparsable) =>
        /\ llm_calls = max_iterations
        /\ Len(intermediate_steps) = max_iterations
        /\ \A i \in 1..Len(intermediate_steps) :
             intermediate_steps[i].observation.kind = "parse_error"
        /\ outcome \in {"stopped", "error"}

\* C3: when the model requests a tool name that is not in the registry (names
\* compare case-sensitively and exactly), no tool is executed, a tool-not-found
\* observation is appended to the scratchpad and the loop goes on (or stops at the
\* iteration limit); the run ends within the bound with a final answer or a
\* failed outcome, never with an exception reaching the caller.
C3_UnknownToolIsAnObservation ==
    /\ [][(phase = "act" /\ pending.tool \notin RegisteredTools) =>
            /\ tool_runs' = tool_runs
            /\ intermediate_steps' =
                 Append(intermediate_steps,
                        Step(pending, InvalidToolObservation(pending.tool)))
            /\ \/ phase' = "plan"
               \/ phase' = "returned" /\ outcome' = "stopped"
                  /\ iterations' = max_iterations]_vars
    /\ [](Returned_ => /\ ~result.raised
                       /\ outcome \in {"finish", "stopped", "error"}
                       /\ llm_calls <= max_iterations)

\* The loop goes on after a request for a name that differs from a registered
\* tool's name in letter case only: nothing was run, the observation is there.
C3_Witness ==
    /\ phase = "plan"
    /\ tool_runs = 0
    /\ Len(intermediate_steps) = 1
    /\ intermediate_steps[1].observation.kind = "invalid_tool"
    /\ intermediate_steps[1].tool \notin RegisteredTools
    /\ \E t \in RegisteredTools : lower(t) = lower(intermediate_steps[1].tool)

\* C4: when a run reaches the iteration bound without a final answer, the caller
\* of process_query receives an error outcome (status error); loop exhaustion is
\* never returned with status success.
C4_ExhaustionIsAnError ==
    (Returned_ /\ outcome = "stopped") => result.status = "error"

\* C5: process_query never raises: for every query, context map, model output and
\* tool behaviour (parse failures and tool exceptions included) it returns a
\* result to its caller.
C5_ProcessQueryNeverRaises ==
    /\ ~result.raised
    /\ Returned_ => result.status # "none"

\* A tool raised (its input failed the schema validation) and the caller got an
\* error result.
C5_Witness ==
    /\ Returned_
    /\ outcome = "error"
    /\ result.status = "error"
    /\ result.error_type = "ValidationError"
    /\ llm_outputs # <<>>
    /\ llm_outputs[Len(llm_outputs)] = OutWalletNoAddress

\* The run so far is the scenario: the model asked for the token tool with a
\* structured input, and the tool's success envelope is in the scratchpad.
ToolSucceededFirst ==
    /\ Len(llm_outputs) >= 1
    /\ llm_outputs[1] = OutToken
    /\ Len(intermediate_steps) >= 1
    /\ intermediate_steps[1].observation.kind = "envelope"
    /\ intermediate_steps[1].observation.status = "success"

C14_TurnAppendsOnePair ==
    [][(Running /\ phase' = "returned" /\ outcome' = "finish"
        /\ result'.status = "success") =>
          chat_memory' = chat_memory \o <<HumanMessage(query),
                                          AIMessage(result'.response)>>]_vars

\* C15: after a turn whose query contains an address-shaped token (0x and 40
\* hexadecimal digits), last_address equals that token exactly as the query
\* wrote it, letter case preserved.
C15_AddressKeptAsWritten ==
    (Returned_ /\ outcome = "finish" /\ result.status = "success"
     /\ first_address(query) # <<>>) =>
        last_address = first_address(query)

(***************************************************************************)
(* Properties of the query rewriting (checked under RewriteSpec)           *)
(***************************************************************************)
Rewritten == phase = "rewritten"

\* The cue word w stands in q as a word: between spaces or the ends of q.
WordAt(q, i, w) ==
    /\ StartsAt(q, i, w)
    /\ (i = 1 \/ q[i - 1] = " ")
    /\ (i + Len(w) > Len(q) \/ q[i + Len(w)] = " ")
HasCueWord(q) == \E w \in CueWords : \E i \in 1..Len(q) : WordAt(lower(q), i, w)

\* The query with the stored address appended, and then the context map if any.
WithStoredAddress(q, a, c) ==
    LET q1 == q \o ForAddress \o a IN
    IF c # <<>> THEN q1 \o ContextHeader \o c ELSE q1

\* C16: whenever EntityContext holds an address A and the query contains no
\* address-shaped token but contains one of the cue words it, that, this, the, the
\* query rendered into the prompt is the original query with " for address A"
\* appended.
C16_CueWordAppendsAddress ==
    (Rewritten /\ last_address # <<>> /\ first_address(query) = <<>>
     /\ HasCueWord(query)) =>
        formatted_query = WithStoredAddress(query, last_address, context)

\* C17: the stored address is appended only when EntityContext holds a value, the
\* query contains no address-shaped token and a cue word occurs in the query as a
\* word; in every other case the stored address is not appended.
C17_AppendsOnlyOnCueWord ==
    (Rewritten /\ startswith(formatted_query, query \o ForAddress)) =>
        /\ last_address # <<>>
        /\ first_address(query) = <<>>
        /\ HasCueWord(query)

(***************************************************************************)
(* Properties of EntityContext over the turns of one agent (under Spec)    *)
(***************************************************************************)
\* C18: when a query contains address-shaped tokens, EntityContext is set to the
\* first of them before the first prompt of that turn is rendered, so the update
\* is in place whatever the outcome of the turn (final answer or failure).  The
\* comparison leaves letter case aside.
C18_AddressStoredBeforeFirstPrompt ==
    ((Running \/ Returned_) /\ first_address(query) # <<>>) =>
        lower(last_address) = lower(first_address(query))

\* C19: once last_address is set it stays set through every later turn
\* (successful or failed, with or without an address in the query) and changes
\* only by being overwritten with another address.
C19_AddressPersists ==
    [][last_address # <<>> =>
         /\ last_address' # <<>>
         /\ last_address' # last_address => is_address(last_address')]_vars

\* An address stored by the first turn is still there after a second turn that
\* failed and whose query held no address.
C19_Witness ==
    /\ turn = 2
    /\ Returned_
    /\ outcome = "error"
    /\ first_address(query) = <<>>
    /\ last_address = StoredAddress

\* C20: EntityContext changes during a turn only if the query text of that turn
\* holds an address-shaped token; the values of the context map and the text
\* added by query rewriting never update it.
C20_OnlyTheQueryUpdatesAddress ==
    [][last_address' # last_address =>
         /\ first_address(query) # <<>>
         /\ last_address' = first_address(lower(query))]_vars

\* A turn with an address in its context map and none in its query has ended
\* with a final answer, and nothing was stored.
C20_Witness ==
    /\ Returned_
    /\ outcome = "finish"
    /\ result.status = "success"
    /\ first_address(context) # <<>>
    /\ first_address(query) = <<>>
    /\ Contains(formatted_query, first_address(context))
    /\ last_address = <<>>

(***************************************************************************)
(* Properties of the reset (checked under ResetSpec)                       *)
(***************************************************************************)
\* C21: after clear_memory, from any memory state, the transcript is empty and
\* last_address is unset, so a follow-up query with a cue word is not rewritten
\* with an address stored before the reset.
C21_ResetClearsTranscriptAndAddress ==
    resets >= 1 =>
        /\ chat_memory = <<>>
        /\ last_address = <<>>
        /\ Rewritten => formatted_query = query

\* C22: the reset is idempotent: a second reset in a row leaves the transcript
\* and EntityContext exactly as the first one left them.
C22_ResetIsIdempotent ==
    [][(resets >= 1 /\ resets' = resets + 1) =>
         (chat_memory' = chat_memory /\ last_address' = last_address)]_vars

\* Two resets were made on a memory that held an address.
C22_Witness ==
    /\ resets = 2
    /\ chat_memory = <<>>
    /\ last_address = StoredAddress

(***************************************************************************)
(* Properties of the HTTP server (checked under ServerSpec)                *)
(***************************************************************************)
\* The history h holds the query q and, after it, the answer a.
HoldsTurn(h, q, a) ==
    \E i \in 1..Len(h) : \E j \in (i + 1)..Len(h) :
        /\ h[i] = [role |-> "user", content |-> q]
        /\ h[j] = [role |-> "assistant", content |-> a]

\* C23: a history request that follows a successful process-query request of the
\* same server process, with no reset in between, returns a history that holds
\* that query and its answer, in this order.
C23_HistoryHoldsTheAnsweredQuery ==
    [][(/\ http.request = "query"
        /\ http.code = 200
        /\ result.status = "success"
        /\ http'.request = "history")
       => HoldsTurn(history', query, response_text(result))]_vars

\* C28: the answer to a process-query request has status "success" only when
\* the agent's run ended with a final answer; a run that ended in an error (an
\* internal fault or the exhausted loop) is answered with status "error".
C28_SuccessOnlyOnFinalAnswer ==
    (http.request = "query" /\ http.code # 0 /\ http.status = "success")
        => outcome = "finish"

\* C30: sessions share no mutable state: the first process-query request of a
\* session is never refused, whatever the other sessions have sent and when.
C30_OtherSessionsNeverRefuseARequest ==
    ~(http.request = "query" /\ http.first /\ http.code = 429)

(***************************************************************************)
(* Properties of the rate limiter (checked under RateSpec)                 *)
(***************************************************************************)
\* The positions in the log of the accepted checks of key k.
AcceptedOf(k) == {i \in 1..Len(accepted) : accepted[i].key = k}

\* Less than the minimum interval of key k, 1 / requests_per_second seconds,
\* lies between the times t1 <= t2.
WithinInterval(k, t1, t2) == (t2 - t1) * requests_per_second(k) < TicksPerSecond

\* Caller c finishes its check in this step.
Checked(c) == checks[c].pc = "holding" /\ checks'[c].pc \in {"accepted", "rejected"}

\* C24: under any interleaving of the callers, the first check of a key is
\* accepted; a later check is rejected, in the step that makes it, exactly when
\* less than the minimum interval has passed since the last accepted check of
\* its key; so no two accepted checks of a key are less than the interval apart.
C24_RateLimiterKeepsTheInterval ==
    /\ [][\A c \in CheckCallers : Checked(c) =>
            LET k == checks[c].key
                before == AcceptedOf(k) IN
            IF before = {}
            THEN checks'[c].pc = "accepted"
            ELSE (checks'[c].pc = "rejected"
                    <=> WithinInterval(k, accepted[Max(before)].at, now))]_vars
    /\ [](\A i, j \in 1..Len(accepted) :
            (i < j /\ accepted[i].key = accepted[j].key)
                => ~WithinInterval(accepted[i].key, accepted[i].at, accepted[j].at))

\* Two callers were let through on the same key, and a third check of that key
\* was refused.
C24_Witness ==
    \E c1, c2 \in CheckCallers :
        /\ c1 # c2
        /\ checks[c1].pc = "accepted"
        /\ checks[c2].pc = "rejected"
        /\ checks[c1].key = checks[c2].key
        /\ Cardinality(AcceptedOf(checks[c1].key)) >= 2

C27_AlwaysAResultWithSuccessFlag ==
    req.pc = "returned"
        => /\ req.ret.kind = "dict"
           /\ IF req.ret.success THEN req.ret.data ELSE req.ret.error

(***************************************************************************)
(* Properties of retry_on_failure (checked under RetrySpec)                *)
(***************************************************************************)
\* The attempts, among the max_attempts allowed, that would succeed.
Succeeding == {i \in 1..max_attempts : retry.outcomes[i] = "ok"}

\* C26: the wrapper attempts the operation up to max_attempts times; when one of
\* these attempts succeeds, the first success is returned, after that many
\* attempts; when all fail, the error of the last attempt is raised.
C26_RetryUntilSuccessOrLastError ==
    retry.pc = "done"
        => IF Succeeding # {}
           THEN /\ retry.ret = Returned(NoValue)
                /\ retry.attempts = Min(Succeeding)
           ELSE /\ retry.ret = Raised(retry.outcomes[max_attempts])
                /\ retry.attempts = max_attempts

(***************************************************************************)
(* Properties of process_query's return value (checked under AnswerSpec)   *)
(***************************************************************************)
\* C29: every value process_query returns is the uniform envelope: its status
\* is "success" or "error", also when the final answer looks like an object.
C29_UniformEnvelope ==
    phase = "returned" => (~result.raised /\ result.status \in {"success", "error"})

(***************************************************************************)
(* Properties of the scratchpad (checked under Spec)                       *)
(***************************************************************************)
\* The scratchpad after the step is the scratchpad before it plus one entry.
OneEntryAppended ==
    /\ Len(intermediate_steps') = Len(intermediate_steps) + 1
    /\ SubSeq(intermediate_steps', 1, Len(intermediate_steps)) = intermediate_steps

C32_NamedCapabilitiesAreRegistered ==
    \A i \in 1..Len(intermediate_steps) :
        intermediate_steps[i].tool \in NamedCapabilities
            => intermediate_steps[i].observation.kind # "invalid_tool"

(***************************************************************************)
(* Properties of the memory at the end of a turn (checked under AnswerSpec) *)
(***************************************************************************)
\* C33: when a turn ends with an error envelope, the transcript and the stored
\* address after the turn are what they were before it.
C33_ErrorTurnLeavesMemoryAlone ==
    [][(phase # "returned" /\ phase' = "returned" /\ result'.status = "error")
        => (chat_memory' = chat_memory /\ last_address' = last_address)]_vars

(***************************************************************************)
(* Properties of the transcript under concurrent runs (ConcurrentSpec)     *)
(***************************************************************************)
\* The messages at i and i + 1 are the user entry and the assistant entry of
\* one turn of some run.
PairOfOneTurn(i) ==
    /\ chat_memory[i].role = "human"
    /\ chat_memory[i + 1].role = "ai"
    /\ \E r \in ConcurrentRuns : \E t \in runs[r].turns :
          /\ chat_memory[i].content \in {t.query, t.formatted_query}
          /\ chat_memory[i + 1].content = t.output

\* C34: for any interleaving of concurrent process_query runs and resets on one
\* agent, the transcript consists of consecutive (user, assistant) pairs: its
\* length is even and every user entry is followed at once by the assistant
\* entry of the same turn.
C34_TranscriptIsPairsOfOneTurn ==
    /\ Len(chat_memory) % 2 = 0
    /\ \A i \in 1..Len(chat_memory) : i % 2 = 1 => PairOfOneTurn(i)

\* Two runs with different queries and outputs have written their four pairs
\* interleaved: the first run's second pair comes after the second run's first.
C34_Witness ==
    /\ Len(chat_memory) = 8
    /\ runs["r1"].pc = "done"
    /\ runs["r2"].pc = "done"
    /\ runs["r1"].query # runs["r2"].query
    /\ runs["r1"].output # runs["r2"].output
    /\ chat_memory[1].content = chat_memory[5].content
    /\ chat_memory[3].content = runs["r2"].formatted_query
    /\ chat_memory[3].content # chat_memory[1].content

(***************************************************************************)
(* Properties of the rate limits of the server (checked under ServerSpec)  *)
(***************************************************************************)
\* C35: check_rate_limits is all-or-nothing: when a process-query request is
\* refused, no limiter's recorded time has been changed by that check.
C35_RefusedCheckRecordsNothing ==
    [][(http'.n = http.n + 1 /\ http'.request = "query" /\ http'.code = 429)
        => last_request_time' = last_request_time]_vars

(***************************************************************************)
(* Properties of the limiter's recorded times (checked under RateSpec)     *)
(***************************************************************************)
\* C36: a refused check leaves every recorded time unchanged, and an accepted
\* check changes only the time of its own key, so that a check on one key never
\* affects the acceptance on another key.
C36_CheckTouchesOnlyItsKey ==
    [][\A c \in CheckCallers : Checked(c) =>
          IF checks'[c].pc = "rejected"
          THEN last_request_time' = last_request_time
          ELSE /\ last_request_time'[checks[c].key] = Entry(now)
               /\ \A k \in DOMAIN last_request_time :
                      k # checks[c].key => last_request_time'[k] = last_request_time[k]]_vars

\* One caller was refused on a key while the other was let through, later, on
\* another key.
C36_Witness ==
    \E c1, c2 \in CheckCallers :
        /\ checks[c1].pc = "rejected"
        /\ checks[c2].pc = "accepted"
        /\ checks[c1].key # checks[c2].key
        /\ last_request_time[checks[c1].key].known
        /\ last_request_time[checks[c2].key].at > last_request_time[checks[c1].key].at

(***************************************************************************)
(* Properties of make_request on refused statuses (under RequestSpec)      *)
(***************************************************************************)
\* C37: make_request retries only on exceptions: an attempt answered with a
\* status outside 2xx/3xx ends the call at once with a failure result that
\* carries the status code; no wait and no further attempt follows.
C37_RefusedStatusEndsTheCall ==
    /\ req.last = "http_error"
          => /\ req.pc = "returned"
             /\ req.ret.kind = "dict"
             /\ ~req.ret.success
             /\ req.ret.status_code
             /\ Len(req.waits) = req.attempts - 1
    /\ req.pc = "sleep" => req.last \in TransportFailures

\* The first attempt failed in the transport, the second was answered with a
\* refused status while an attempt was still left.
C37_Witness ==
    /\ req.last = "http_error"
    /\ req.attempts = 2
    /\ req.retry_count = MaxRetryCount
    /\ req.ret = HttpErrorDict

(***************************************************************************)
(* Properties of the cached lookups (checked under CacheSpec)              *)
(***************************************************************************)
\* A lookup of key k is called in this step.
LookedUp(k) == lookup'.n = lookup.n + 1 /\ lookup'.key = k

\* The entry of key k is younger than the time-to-live, 300 s.
WithinTTL(k) == cache[k].known /\ (now - cache[k].at) * SecondsPerStep < 300

\* A lookup within the TTL of its key's entry returns the cached value and
\* issues no request; any other lookup goes to its upstream request.
CachedWithinTTL ==
    [][\A k \in CacheKeys : LookedUp(k) =>
          IF WithinTTL(k)
          THEN /\ lookup'.pc = "done"
               /\ lookup'.ret = "cached"
               /\ lookup'.data = cache[k].data
               /\ lookup'.requests = lookup.requests
          ELSE lookup'.pc = "fetching"]_vars

\* The lookup that fetches issues its request.
FetchIssuesRequest ==
    [][(lookup.pc = "fetching" /\ lookup'.pc # "fetching")
          => lookup'.requests = lookup.requests + 1]_vars

C39_PromptOrder ==
    phase = "plan" =>
        LET P == rendered_prompt
            h == Len(chat_memory)
            n == Len(intermediate_steps) IN
        /\ Len(P) = 1 + h + 1 + 2 * n
        /\ P[1].role = "system"
        /\ \A t \in RegisteredTools : Contains(P[1].content, t)
        /\ \A i \in 1..h : /\ P[1 + i].role = chat_memory[i].role
                           /\ P[1 + i].content = chat_memory[i].content
        /\ P[h + 2].role = "human"
        /\ P[h + 2].content = formatted_query
        /\ \A j \in 1..n :
              /\ P[h + 2 * j + 1].role = "ai"
              /\ P[h + 2 * j + 1].content = intermediate_steps[j].log
              /\ P[h + 2 * j + 2].role = "human"
              /\ P[h + 2 * j + 2].content = ObservationPrefix
              /\ P[h + 2 * j + 2].observation = intermediate_steps[j].observation

\* A prompt of a second turn, with a transcript and two different scratchpad
\* entries.
C39_Witness ==
    /\ phase = "plan"
    /\ turn = 2
    /\ Len(chat_memory) >= 2
    /\ Len(intermediate_steps) >= 2
    /\ intermediate_steps[1] # intermediate_steps[2]

(***************************************************************************)
(* Properties of the knowledge tool's dispatch (checked under DispatchSpec) *)
(***************************************************************************)
\* The dispatch at hand hands the knowledge tool a non-empty query string.
KnowledgeQueryPending ==
    /\ phase = "act"
    /\ pending.tool = KnowledgeToolName
    /\ ~schema_rejects(KnowledgeToolName, pending.tool_input)
    /\ tool_call_of(KnowledgeToolName, pending.tool_input, "ok").primary = "valid"

\* C40: the vector store is initialised before the first query reaches the
\* knowledge tool: a non-empty query dispatched to the agent's KnowledgeTool,
\* with the search itself working, is answered with a success envelope and not
\* with the "not initialized" error.
C40_KnowledgeToolIsInitialised ==
    KnowledgeQueryPending =>
        /\ tool_call_of(KnowledgeToolName, pending.tool_input, "ok").vector_store
        /\ ~tool_arun(KnowledgeToolName, pending.tool_input, "ok").raised
        /\ tool_arun(KnowledgeToolName, pending.tool_input, "ok").value.status = "success"
====
